---- MODULE Spec2Model ----
(***************************************************************************)
(* A model of launch-bar's command runner / process tracker                *)
(* (crates/launch-bar/src/app.rs): the per-slot execution state kept by    *)
(* LaunchBarApp, the operations that change it (run_command,               *)
(* check_processes, check_scripts, switch_to_next_preset) and the          *)
(* environment it talks to (spawned shell children, script worker threads  *)
(* and the mpsc result channel).                                           *)
(*                                                                         *)
(* Conventions.  Slot and preset indices are 0-based as in the Rust code;  *)
(* sequences are 1-based, so slot i of `commands` is commands[i + 1].      *)
(* Option<T> is a sequence of length <= 1: None is << >>, Some(x) is <<x>>.*)
(* A String built by format! is the tuple of its pieces, so                *)
(* format!("Done: {}", name) is <<"Done: ", name>>.                        *)
(***************************************************************************)
EXTENDS Integers, Sequences, FiniteSets, TLC

\* ------------------------------------------------------------------ bounds

\* How many tasks may exist at once: shell children alive or tracked, and
\* script executions in flight (worker running, or its result still in the
\* channel).
MaxTasks == 2

\* ------------------------------------------------------------- Option, maps

None == << >>

Some(x) == <<x>>

IsSome(o) == o # << >>

Unwrap(o) == o[1]

\* HashMap::insert
MapInsert(m, k, v) == [x \in (DOMAIN m) \cup {k} |-> IF x = k THEN v ELSE m[x]]

\* HashMap::new / clear
EmptyMap == [x \in {} |-> 0]

\* Iterator::take(n) on a Vec
Take(s, n) == SubSeq(s, 1, IF Len(s) < n THEN Len(s) ELSE n)

\* --------------------------------------------------------------- the config

\* str::contains("$clipboard") for the command lines of the configuration
ContainsClipboard(cmd) == cmd \in {"open $clipboard"}

\* CommandConfig { name, cmd, run } (icon, cwd and script_type do not reach
\* the per-slot state)
CommandConfig(name, cmd, run) == [name |-> name, cmd |-> cmd, run |-> run]

\* Preset { name, detect_file, cwd_pattern, commands }
Preset(name, detect_file, cwd_pattern, cmds) ==
    [name |-> name, detect_file |-> detect_file, cwd_pattern |-> cwd_pattern,
     commands |-> cmds]

\* Preset::is_global
is_global(preset) == preset.detect_file = None /\ preset.cwd_pattern = None

\* window.max_icons of the checked configuration (the default is 5)
max_icons == 2

\* The checked configuration.  Two detectable presets: one with a script and
\* a shell line, one with a command that has neither `cmd` nor `run` and a
\* command that has both.  And the fallback preset made of the top-level
\* commands: a shell line with the clipboard placeholder, a plain shell line,
\* and a third command that max_icons cuts off.
all_presets ==
    << Preset("Rust", Some("Cargo.toml"), None,
              << CommandConfig("fmt", None, Some("@fmt.rhai")),
                 CommandConfig("build", Some("cargo build"), None) >>),
       Preset("Docs", None, Some("~/docs/*"),
              << CommandConfig("todo", None, None),
                 CommandConfig("test", Some("make test"), Some("run_tests()")) >>),
       Preset("[Global]", None, None,
              << CommandConfig("open", Some("open $clipboard"), None),
                 CommandConfig("serve", Some("make serve"), None),
                 CommandConfig("extra", None, Some("notify()")) >>) >>

\* The slot indices a command list cut to max_icons can have
SlotIdx == 0 .. (max_icons - 1)

\* 0-based indices of all_presets
PresetIdx == 0 .. (Len(all_presets) - 1)

\* The elements of a set of indices in increasing order, as
\* presets.iter().enumerate() visits them
RECURSIVE Ascending(_)
Ascending(S) ==
    IF S = {} THEN << >>
    ELSE LET m == CHOOSE x \in S : \A y \in S : x <= y
         IN  <<m>> \o Ascending(S \ {m})

\* An order that lists the detected preset again in its group
build_preset_order_RepeatsDetected(presets, detected_idx) ==
    LET idx == 0 .. (Len(presets) - 1)
        first == IF IsSome(detected_idx) THEN <<Unwrap(detected_idx)>> ELSE << >>
        globals == {i \in idx : is_global(presets[i + 1])}
        others == {i \in idx : ~is_global(presets[i + 1])}
    IN  first \o Ascending(globals) \o Ascending(others)

\* LaunchBarApp::build_preset_order
build_preset_order(presets, detected_idx) ==
    LET idx == 0 .. (Len(presets) - 1)
        first == IF IsSome(detected_idx) THEN <<Unwrap(detected_idx)>> ELSE << >>
        globals == {i \in idx : is_global(presets[i + 1]) /\ Some(i) # detected_idx}
        others == {i \in idx : ~is_global(presets[i + 1]) /\ Some(i) # detected_idx}
    IN  first \o Ascending(globals) \o Ascending(others)

\* -------------------------------------------------------------------- state

VARIABLES
    loaded_presets,      \* LaunchBarApp::all_presets: Vec<Preset>, fixed by new()
    commands,            \* Vec<CommandConfig>: the active command list
    preset_name,         \* Option<String>
    preset_order,        \* Vec<usize>
    current_preset_idx,  \* usize: position in preset_order
    last_status,         \* Option<String>
    is_error,            \* bool
    running_processes,   \* HashMap<usize, Child>: slot -> its child's state
    process_results,     \* HashMap<usize, ProcessResult>
    running_scripts,     \* HashSet<usize>
    script_channel,      \* the mpsc channel script_tx -> script_rx, in send order
    orphans,             \* how many children run on with their Child dropped
    workers,             \* slot index -> how many worker threads are running
    lastOp               \* the last operation of the application, and its branch

\* PresetResolver (config/resolver.rs), which collects the configuration
\* before the application is built
VARIABLES
    resolver_presets,    \* PresetResolver::presets: Vec<ResolvedPreset>
    resolver_window,     \* PresetResolver::window: WindowSettings
    explicit_preset,     \* PresetResolver::explicit_preset: Option<(String, ConfigSource)>
    resolved,            \* the ResolvedConfig resolve() returned, if resolve was the last call
    add_count,           \* how many configurations were added
    given                \* the names last passed to set_arg_preset / set_env_preset

\* The calls of the functions that have no state of their own
VARIABLES
    selection,           \* ResolvedConfig::detect_preset: the last call and its result
    script_call,         \* resolve_script_type: the last call and its result
    run_call             \* script::run_script: the last call, what it did and its result

\* The persisted window positions (config/state.rs)
VARIABLES
    state,               \* AppState::positions: HashMap<String, [f32; 2]>
    state_file,          \* the text of the state file on disk, if there is one
    working_dir_str      \* LaunchBarApp::working_dir_str of the running process, if any

\* The fields of LaunchBarApp, the channel, the threads and the children
app_vars == << loaded_presets, commands, preset_name, preset_order,
               current_preset_idx, last_status, is_error, running_processes,
               process_results, running_scripts, script_channel, orphans,
               workers, lastOp >>

\* The resolver and what was asked of it
resolver_vars == << resolver_presets, resolver_window, explicit_preset, resolved,
                    add_count, given >>

\* The last calls of detect_preset and resolve_script_type
call_vars == << selection, script_call, run_call >>

\* The position state in memory and on disk
state_vars == << state, state_file, working_dir_str >>

vars == << app_vars, resolver_vars, call_vars, state_vars >>

\* The fields of LaunchBarApp that hold per-slot state
slot_state == << running_processes, process_results, running_scripts >>

\* What the operating system and the worker threads hold
environment == << script_channel, orphans, workers >>

\* The fields a preset switch replaces
preset_state == << loaded_presets, commands, preset_name, preset_order,
                   current_preset_idx >>

Op(op, index, branch) == [op |-> op, index |-> index, branch |-> branch]

\* The slot indices the UI offers: update() draws one button per command
Slots == 0 .. (Len(commands) - 1)

\* ------------------------------------------------------------ the resolver

\* enum ConfigSource, ordered by its discriminants
Global == 0

Project == 1

Arg == 2

Env == 3

\* WindowSettings; opacity in hundredths
WindowSettings(icons, opacity, colour, border, title_bar, accent_line, script) ==
    [max_icons |-> icons, opacity |-> opacity, background_color |-> colour,
     border |-> border, title_bar |-> title_bar, accent_line |-> accent_line,
     default_script |-> script]

\* impl Default for WindowSettings
WindowDefault == WindowSettings(5, 80, None, "auto", "auto", "auto", None)

\* Preset with all the fields a configuration file gives it
ConfigPreset(name, detect_file, cwd_pattern, base_color, default_script, cmds) ==
    [name |-> name, detect_file |-> detect_file, cwd_pattern |-> cwd_pattern,
     base_color |-> base_color, default_script |-> default_script,
     commands |-> cmds]

\* Config { window, presets, commands }
Config(window, presets, cmds) ==
    [window |-> window, presets |-> presets, commands |-> cmds]

\* GLOBAL_PRESET_NAME
GLOBAL_PRESET_NAME == "[Global]"

\* The configuration files checked: presets whose names differ only in case
\* across and within files, global and detecting presets, a file with
\* presets and top-level commands, one with presets only, one with top-level
\* commands only; window colours and script defaults present and absent
Configs ==
    { Config(WindowSettings(5, 80, Some("#202020"), "auto", "auto", "auto", Some("Lua")),
             << ConfigPreset("Rust", Some("Cargo.toml"), None, None, None,
                             << CommandConfig("build", Some("cargo build"), None) >>),
                ConfigPreset("Docs", None, Some("~/docs/*"), None, None,
                             << CommandConfig("serve", Some("mdbook serve"), None) >>) >>,
             << CommandConfig("shell", Some("sh"), None) >>),
      Config(WindowSettings(3, 100, None, "show", "hide", "auto", None),
             << ConfigPreset("rust", Some("Cargo.lock"), None, None, Some("Rhai"),
                             << CommandConfig("test", Some("cargo test"), None) >>),
                ConfigPreset("Notes", None, None, None, None,
                             << CommandConfig("todo", None, Some("@todo.lua")) >>),
                ConfigPreset("RUST", None, Some("~/rs/*"), None, None, << >>) >>,
             << >>),
      Config(WindowSettings(5, 80, Some("#101010"), "auto", "auto", "auto", Some("Rhai")),
             << >>,
             << CommandConfig("serve", Some("python -m http.server"), None) >>) }

\* The preset names --preset and LAUNCH_BAR_PRESET are given
SelectedNames == {"rust", "Prod"}

\* str::to_lowercase on the names that occur
to_lowercase(name) ==
    CASE name \in {"Rust", "rust", "RUST"} -> "rust"
      [] name = "Tools" -> "tools"
      [] name = "Notes" -> "notes"
      [] name = "Docs" -> "docs"
      [] name = "[Global]" -> "[global]"
      [] name = "Prod" -> "prod"
      [] OTHER -> name

\* ResolvedPreset { preset, source }
ResolvedPreset(preset, source) == [preset |-> preset, source |-> source]

\* A synthesized preset that takes nothing from the window settings
commands_as_preset_NoWindowValues(config) ==
    IF config.commands = << >> THEN None
    ELSE Some(ConfigPreset(GLOBAL_PRESET_NAME, None, None, None, None,
                           config.commands))

\* Config::commands_as_preset
commands_as_preset(config) ==
    IF config.commands = << >> THEN None
    ELSE Some(ConfigPreset(GLOBAL_PRESET_NAME, None, None,
                           config.window.background_color,
                           config.window.default_script, config.commands))

\* A merge in which the later source overrides every field
merge_window_OverridesAll(window, new_window) == new_window

\* PresetResolver::merge_window
merge_window(window, new_window) ==
    [window EXCEPT
        !.max_icons = new_window.max_icons,
        !.opacity = new_window.opacity,
        !.background_color = IF IsSome(new_window.background_color)
                             THEN new_window.background_color ELSE @,
        !.border = new_window.border,
        !.title_bar = new_window.title_bar,
        !.accent_line = new_window.accent_line,
        !.default_script = IF IsSome(new_window.default_script)
                           THEN new_window.default_script ELSE @]

\* What was asked of the resolver so far: nothing
NothingGiven == [arg |-> None, env |-> None, last |-> None]

\* No initial selection has been made
NoSelection == [presets |-> << >>, explicit_preset |-> None, working_dir |-> None,
                result |-> None]

\* run_script has not been called
NoRun == [script |-> None, script_type |-> None, cwd |-> None, files |-> None,
          read |-> None, engine |-> None, result |-> None]

\* No script type has been resolved
NoCall == [explicit |-> None, script |-> None, config |-> None, result |-> None]

\* Neither detect_preset nor resolve_script_type has been called
NothingCalled == selection = NoSelection /\ script_call = NoCall /\ run_call = NoRun

\* AppState::default, and no state file
NothingStored == state = EmptyMap /\ state_file = None /\ working_dir_str = None

\* PresetResolver::new
ResolverNew ==
    /\ resolver_presets = << >>
    /\ resolver_window = WindowDefault
    /\ explicit_preset = None
    /\ resolved = None
    /\ add_count = 0
    /\ given = NothingGiven

\* main(): the commands of the detected preset, or else the top-level
\* commands (which Config::commands_as_preset turns into the global preset),
\* cut to max_icons; LaunchBarApp::new for the rest.
Init ==
    \E detected_idx \in {None} \cup {Some(i) : i \in PresetIdx} :
        LET shown == IF IsSome(detected_idx)
                     THEN all_presets[Unwrap(detected_idx) + 1]
                     ELSE CHOOSE p \in {all_presets[i + 1] : i \in PresetIdx} :
                              is_global(p)
        IN  /\ loaded_presets = all_presets
            /\ commands = Take(shown.commands, max_icons)
            /\ preset_name = IF IsSome(detected_idx) THEN Some(shown.name) ELSE None
            /\ preset_order = build_preset_order(all_presets, detected_idx)
            /\ current_preset_idx = 0
            /\ last_status = None
            /\ is_error = FALSE
            /\ running_processes = EmptyMap
            /\ process_results = EmptyMap
            /\ running_scripts = {}
            /\ script_channel = << >>
            /\ orphans = 0
            /\ workers = [i \in SlotIdx |-> 0]
            /\ lastOp = Op("new", -1, "new")
            /\ ResolverNew
            /\ NothingCalled
            /\ NothingStored

\* ------------------------------------------------------------- run_command

\* Sum of f over the slot indices
RECURSIVE SumUpTo(_, _)
SumUpTo(f, n) == IF n < 0 THEN 0 ELSE f[n] + SumUpTo(f, n - 1)

\* The script executions in flight: the worker threads that are running and
\* the results sent but not yet received
InFlight == SumUpTo(workers, max_icons - 1) + Len(script_channel)

\* The children the process holds or has left running
LiveChildren == Cardinality(DOMAIN running_processes) + orphans

\* A drop that ends the child: no dropped child runs on
Dropped_KillsChild(tracked) == 0

\* Dropping a Child neither kills nor waits: a child that is still running
\* runs on, untracked
Dropped(tracked) ==
    Cardinality({i \in DOMAIN tracked : tracked[i] = "running"})

\* run_command, script branch, slot already in running_scripts: return
RunScriptAlreadyRunning(index) ==
    /\ UNCHANGED << preset_state, last_status, is_error, slot_state, environment >>
    /\ lastOp' = Op("run_command", index, "already_running")

\* A dispatch that clears the Success results as a successful spawn does
RunScriptDispatch_ClearsSuccesses(index, cmd_config) ==
    /\ LiveChildren + InFlight < MaxTasks
    /\ process_results' =
           [i \in {j \in DOMAIN process_results : process_results[j] # "Success"}
               |-> process_results[i]]
    /\ running_scripts' = running_scripts \cup {index}
    /\ last_status' = Some(<<"Running: ", cmd_config.name>>)
    /\ is_error' = FALSE
    /\ workers' = [workers EXCEPT ![index] = @ + 1]
    /\ UNCHANGED << preset_state, running_processes, script_channel, orphans >>
    /\ lastOp' = Op("run_command", index, "script_dispatched")

\* run_command, script branch: mark the slot, set the status and spawn the
\* worker thread, which holds the slot index and a clone of script_tx
RunScriptDispatch(index, cmd_config) ==
    /\ LiveChildren + InFlight < MaxTasks
    /\ running_scripts' = running_scripts \cup {index}
    /\ last_status' = Some(<<"Running: ", cmd_config.name>>)
    /\ is_error' = FALSE
    /\ workers' = [workers EXCEPT ![index] = @ + 1]
    /\ UNCHANGED << preset_state, running_processes, process_results,
                    script_channel, orphans >>
    /\ lastOp' = Op("run_command", index, "script_dispatched")

\* The script branch without its "already running" check
RunScript_NoRunningCheck(index, cmd_config) == RunScriptDispatch(index, cmd_config)

\* run_command, script branch
RunScript(index, cmd_config) ==
    IF index \in running_scripts
    THEN RunScriptAlreadyRunning(index)
    ELSE RunScriptDispatch(index, cmd_config)

\* A clipboard failure handled like a spawn failure: the slot is marked Failed
RunShellClipboardFailed_MarksFailed(index) ==
    /\ last_status' = Some(<<"Failed to read clipboard">>)
    /\ is_error' = TRUE
    /\ process_results' = MapInsert(process_results, index, "Failed")
    /\ UNCHANGED << preset_state, running_processes, running_scripts, environment >>
    /\ lastOp' = Op("run_command", index, "clipboard_failed")

\* run_command, shell branch, Clipboard::new().and_then(get_text) is Err
RunShellClipboardFailed(index) ==
    /\ last_status' = Some(<<"Failed to read clipboard">>)
    /\ is_error' = TRUE
    /\ UNCHANGED << preset_state, slot_state, environment >>
    /\ lastOp' = Op("run_command", index, "clipboard_failed")

\* A successful spawn that clears every finished result, not only the successes
RunShellSpawned_ClearsAllResults(index, cmd_config) ==
    /\ LiveChildren + InFlight < MaxTasks
    /\ orphans' = orphans + Dropped([i \in (DOMAIN running_processes) \cap {index}
                                        |-> running_processes[i]])
    /\ process_results' = EmptyMap
    /\ running_processes' = MapInsert(running_processes, index, "running")
    /\ last_status' = Some(<<"Running: ", cmd_config.name>>)
    /\ is_error' = FALSE
    /\ UNCHANGED << preset_state, running_scripts, script_channel, workers >>
    /\ lastOp' = Op("run_command", index, "shell_spawned")

\* A spawn branch that leaves a slot alone whose child is still tracked
RunShellSpawned_KeepsRunning(index, cmd_config) ==
    /\ LiveChildren + InFlight < MaxTasks
    /\ IF index \in DOMAIN running_processes
       THEN UNCHANGED << running_processes, process_results, last_status, is_error,
                         orphans >>
       ELSE /\ orphans' = orphans
            /\ process_results' =
                   [i \in {j \in DOMAIN process_results : process_results[j] # "Success"}
                       |-> process_results[i]]
            /\ running_processes' = MapInsert(running_processes, index, "running")
            /\ last_status' = Some(<<"Running: ", cmd_config.name>>)
            /\ is_error' = FALSE
    /\ UNCHANGED << preset_state, running_scripts, script_channel, workers >>
    /\ lastOp' = Op("run_command", index, "shell_spawned")

\* run_command, shell branch, spawn_shell_command is Ok(child)
RunShellSpawned(index, cmd_config) ==
    /\ LiveChildren + InFlight < MaxTasks
    /\ orphans' = orphans + Dropped([i \in (DOMAIN running_processes) \cap {index}
                                        |-> running_processes[i]])
    /\ process_results' =
           [i \in {j \in DOMAIN process_results : process_results[j] # "Success"}
               |-> process_results[i]]
    /\ running_processes' = MapInsert(running_processes, index, "running")
    /\ last_status' = Some(<<"Running: ", cmd_config.name>>)
    /\ is_error' = FALSE
    /\ UNCHANGED << preset_state, running_scripts, script_channel, workers >>
    /\ lastOp' = Op("run_command", index, "shell_spawned")

\* A failed spawn that clears the successes as a successful one does
RunShellSpawnFailed_ClearsSuccesses(index) ==
    /\ last_status' = Some(<<"Failed: ", "os error">>)
    /\ is_error' = TRUE
    /\ process_results' =
           MapInsert([i \in {j \in DOMAIN process_results :
                                process_results[j] # "Success"}
                        |-> process_results[i]],
                     index, "Failed")
    /\ UNCHANGED << preset_state, running_processes, running_scripts, environment >>
    /\ lastOp' = Op("run_command", index, "spawn_failed")

\* run_command, shell branch, spawn_shell_command is Err(e)
RunShellSpawnFailed(index) ==
    /\ last_status' = Some(<<"Failed: ", "os error">>)
    /\ is_error' = TRUE
    /\ process_results' = MapInsert(process_results, index, "Failed")
    /\ UNCHANGED << preset_state, running_processes, running_scripts, environment >>
    /\ lastOp' = Op("run_command", index, "spawn_failed")

\* run_command, shell branch: the clipboard read and the spawn are calls
\* into the platform, and either may fail
RunShell(index, cmd_config) ==
    \E clipboard_ok \in BOOLEAN, spawn_ok \in BOOLEAN :
        IF ContainsClipboard(Unwrap(cmd_config.cmd)) /\ ~clipboard_ok
        THEN RunShellClipboardFailed(index)
        ELSE IF spawn_ok
             THEN RunShellSpawned(index, cmd_config)
             ELSE RunShellSpawnFailed(index)

\* run_command, neither `cmd` nor `run`
RunNothingDefined(index) ==
    /\ last_status' = Some(<<"No command or script defined">>)
    /\ is_error' = TRUE
    /\ UNCHANGED << preset_state, slot_state, environment >>
    /\ lastOp' = Op("run_command", index, "nothing_defined")

\* run_command trying `cmd` before `run`
run_command_CmdFirst(index) ==
    IF index < Len(commands)
    THEN LET cmd_config == commands[index + 1]
         IN  IF IsSome(cmd_config.cmd) THEN RunShell(index, cmd_config)
             ELSE IF IsSome(cmd_config.run) THEN RunScript(index, cmd_config)
             ELSE RunNothingDefined(index)
    ELSE /\ UNCHANGED << preset_state, last_status, is_error, slot_state, environment >>
         /\ lastOp' = Op("run_command", index, "no_such_slot")

\* LaunchBarApp::run_command
run_command(index) ==
    IF index < Len(commands)
    THEN LET cmd_config == commands[index + 1]
         IN  IF IsSome(cmd_config.run) THEN RunScript(index, cmd_config)
             ELSE IF IsSome(cmd_config.cmd) THEN RunShell(index, cmd_config)
             ELSE RunNothingDefined(index)
    ELSE /\ UNCHANGED << preset_state, last_status, is_error, slot_state, environment >>
         /\ lastOp' = Op("run_command", index, "no_such_slot")

\* ------------------------------------------------------- the worker thread

\* The engine runs the script: it returns a success, returns an error, or
\* panics
Outcomes == {"ok", "error", "panic"}

\* The worker's match on the catch_unwind result: (success, message)
WorkerResult(outcome) ==
    CASE outcome = "ok" -> [success |-> TRUE, message |-> <<"Script completed">>]
      [] outcome = "error" -> [success |-> FALSE, message |-> <<"Script error: ", "e">>]
      [] outcome = "panic" -> [success |-> FALSE, message |-> <<"Script panicked">>]

\* A worker without catch_unwind: a panic unwinds the thread before tx.send
WorkerThread_PanicUnsent(index, outcome) ==
    /\ workers[index] > 0
    /\ LET r == WorkerResult(outcome)
       IN  script_channel' =
               IF outcome = "panic" THEN script_channel
               ELSE Append(script_channel,
                      [index |-> index, success |-> r.success, message |-> r.message])
    /\ workers' = [workers EXCEPT ![index] = @ - 1]
    /\ UNCHANGED << preset_state, last_status, is_error, slot_state, orphans >>
    /\ UNCHANGED lastOp

\* The closure given to std::thread::spawn for slot `index`: run the script
\* under catch_unwind, then send one AsyncScriptResult with the slot index
WorkerThread(index, outcome) ==
    /\ workers[index] > 0
    /\ LET r == WorkerResult(outcome)
       IN  script_channel' = Append(script_channel,
               [index |-> index, success |-> r.success, message |-> r.message])
    /\ workers' = [workers EXCEPT ![index] = @ - 1]
    /\ UNCHANGED << preset_state, last_status, is_error, slot_state, orphans >>
    /\ UNCHANGED lastOp

\* ------------------------------------------------------- the shell children

\* The tracked child of a slot exits on its own, with status 0 or not
ChildExit(index, status) ==
    /\ index \in DOMAIN running_processes
    /\ running_processes[index] = "running"
    /\ running_processes' = [running_processes EXCEPT ![index] = status]
    /\ UNCHANGED << preset_state, last_status, is_error, process_results,
                    running_scripts, environment >>
    /\ UNCHANGED lastOp

\* A child whose Child was dropped exits on its own
OrphanExit ==
    /\ orphans > 0
    /\ orphans' = orphans - 1
    /\ UNCHANGED << preset_state, last_status, is_error, slot_state,
                    script_channel, workers >>
    /\ UNCHANGED lastOp

\* ------------------------------------------------------------ reconciliation

\* The fields check_processes and check_scripts work on
AppFields ==
    [running_processes |-> running_processes, process_results |-> process_results,
     running_scripts |-> running_scripts, last_status |-> last_status,
     is_error |-> is_error]

\* child.try_wait() mapped to what check_processes makes of it: Ok(None) is
\* still running; Ok(Some(status)) is Success or Failed; Err(_) is Failed
try_wait(child, failed) ==
    IF failed THEN "Failed"
    ELSE CASE child = "running" -> "StillRunning"
           [] child = "exit_ok" -> "Success"
           [] child = "exit_fail" -> "Failed"

\* The slots check_processes collects in `finished`
Finished(poll_err) ==
    {idx \in DOMAIN running_processes :
        try_wait(running_processes[idx], idx \in poll_err) # "StillRunning"}

\* check_processes that reports every finished child as a success
check_processes_IgnoresExitStatus(st, poll_err, last) ==
    LET finished == Finished(poll_err)
    IN  [st EXCEPT
            !.running_processes =
                [i \in (DOMAIN st.running_processes) \ finished |->
                    st.running_processes[i]],
            !.process_results =
                [i \in (DOMAIN st.process_results) \cup finished |->
                    IF i \in finished THEN "Success" ELSE st.process_results[i]],
            !.last_status =
                IF last \in finished /\ last < Len(commands)
                THEN Some(<<"Done: ", commands[last + 1].name>>)
                ELSE st.last_status,
            !.is_error =
                IF last \in finished /\ last < Len(commands) THEN FALSE
                ELSE st.is_error]

\* LaunchBarApp::check_processes.  poll_err: the slots whose try_wait
\* fails; last: the finished slot the HashMap iteration visits last (the one
\* whose status text survives), or -1 when none has a command.
check_processes(st, poll_err, last) ==
    LET finished == Finished(poll_err)
        result(idx) == try_wait(st.running_processes[idx], idx \in poll_err)
    IN  [st EXCEPT
            !.running_processes =
                [i \in (DOMAIN st.running_processes) \ finished |->
                    st.running_processes[i]],
            !.process_results =
                [i \in (DOMAIN st.process_results) \cup finished |->
                    IF i \in finished THEN result(i) ELSE st.process_results[i]],
            !.last_status =
                IF last \in finished /\ last < Len(commands)
                THEN Some(<<(IF result(last) = "Success" THEN "Done: " ELSE "Failed: "),
                            commands[last + 1].name>>)
                ELSE st.last_status,
            !.is_error =
                IF last \in finished /\ last < Len(commands)
                THEN result(last) = "Failed"
                ELSE st.is_error]

\* The body of check_scripts' loop for one received AsyncScriptResult
ReceiveResult(st, result) ==
    LET known == result.index < Len(commands)
    IN  [st EXCEPT
            !.running_scripts = st.running_scripts \ {result.index},
            !.process_results =
                MapInsert(st.process_results, result.index,
                          IF result.success THEN "Success" ELSE "Failed"),
            !.last_status =
                IF known
                THEN Some(IF result.success
                          THEN <<"Done: ", commands[result.index + 1].name>>
                          ELSE result.message)
                ELSE st.last_status,
            !.is_error = IF known THEN ~result.success ELSE st.is_error]

\* LaunchBarApp::check_scripts: while let Ok(result) = script_rx.try_recv()
RECURSIVE check_scripts(_, _)
check_scripts(st, rx) ==
    IF rx = << >> THEN st
    ELSE check_scripts(ReceiveResult(st, Head(rx)), Tail(rx))

\* The reconciliation of one update(): check_processes, then check_scripts
Reconcile ==
    \E poll_err \in SUBSET DOMAIN running_processes :
    \E last \in (IF Finished(poll_err) = {} THEN {-1} ELSE Finished(poll_err)) :
        LET st == check_scripts(check_processes(AppFields, poll_err, last),
                                script_channel)
        IN  /\ running_processes' = st.running_processes
            /\ process_results' = st.process_results
            /\ running_scripts' = st.running_scripts
            /\ last_status' = st.last_status
            /\ is_error' = st.is_error
            /\ script_channel' = << >>
            /\ orphans' = orphans + Cardinality({i \in poll_err :
                                     running_processes[i] = "running"})
            /\ UNCHANGED << preset_state, workers >>
            /\ lastOp' = Op("reconcile", -1,
                            IF script_channel = << >> /\ Finished(poll_err) = {}
                            THEN "nothing" ELSE "reconciled")

\* ------------------------------------------------------------ preset switch

\* A preset switch that clears only the Success results, as a spawn does
switch_KeepsFailedResults ==
    IF preset_order = << >>
    THEN /\ UNCHANGED << preset_state, last_status, is_error, slot_state, environment >>
         /\ lastOp' = Op("switch", -1, "empty_order")
    ELSE LET next == (current_preset_idx + 1) % Len(preset_order)
             preset_idx == preset_order[next + 1]
         IN  /\ current_preset_idx' = next
             /\ UNCHANGED << loaded_presets, preset_order, script_channel, workers >>
             /\ IF preset_idx < Len(loaded_presets)
                THEN LET preset == loaded_presets[preset_idx + 1]
                     IN  /\ commands' = Take(preset.commands, max_icons)
                         /\ preset_name' = Some(preset.name)
                         /\ running_processes' = EmptyMap
                         /\ orphans' = orphans + Dropped(running_processes)
                         /\ process_results' =
                                [i \in {r \in DOMAIN process_results :
                                            process_results[r] # "Success"} |->
                                    process_results[i]]
                         /\ running_scripts' = {}
                         /\ last_status' = Some(<<"Switched to: ", preset.name>>)
                         /\ is_error' = FALSE
                         /\ lastOp' = Op("switch", preset_idx, "switched")
                ELSE /\ UNCHANGED << commands, preset_name, last_status, is_error,
                                     slot_state, orphans >>
                     /\ lastOp' = Op("switch", preset_idx, "no_such_preset")

\* A preset switch whose pointer stops at the end of the order instead of
\* wrapping
switch_NoWrap ==
    IF preset_order = << >>
    THEN /\ UNCHANGED << preset_state, last_status, is_error, slot_state, environment >>
         /\ lastOp' = Op("switch", -1, "empty_order")
    ELSE LET next == IF current_preset_idx + 1 < Len(preset_order)
                         THEN current_preset_idx + 1 ELSE current_preset_idx
             preset_idx == preset_order[next + 1]
         IN  /\ current_preset_idx' = next
             /\ UNCHANGED << loaded_presets, preset_order, script_channel, workers >>
             /\ IF preset_idx < Len(loaded_presets)
                THEN LET preset == loaded_presets[preset_idx + 1]
                     IN  /\ commands' = Take(preset.commands, max_icons)
                         /\ preset_name' = Some(preset.name)
                         /\ running_processes' = EmptyMap
                         /\ orphans' = orphans + Dropped(running_processes)
                         /\ process_results' = EmptyMap
                         /\ running_scripts' = {}
                         /\ last_status' = Some(<<"Switched to: ", preset.name>>)
                         /\ is_error' = FALSE
                         /\ lastOp' = Op("switch", preset_idx, "switched")
                ELSE /\ UNCHANGED << commands, preset_name, last_status, is_error,
                                     slot_state, orphans >>
                     /\ lastOp' = Op("switch", preset_idx, "no_such_preset")

\* LaunchBarApp::switch_to_next_preset
switch_to_next_preset ==
    IF preset_order = << >>
    THEN /\ UNCHANGED << preset_state, last_status, is_error, slot_state, environment >>
         /\ lastOp' = Op("switch", -1, "empty_order")
    ELSE LET next == (current_preset_idx + 1) % Len(preset_order)
             preset_idx == preset_order[next + 1]
         IN  /\ current_preset_idx' = next
             /\ UNCHANGED << loaded_presets, preset_order, script_channel, workers >>
             /\ IF preset_idx < Len(loaded_presets)
                THEN LET preset == loaded_presets[preset_idx + 1]
                     IN  /\ commands' = Take(preset.commands, max_icons)
                         /\ preset_name' = Some(preset.name)
                         /\ running_processes' = EmptyMap
                         /\ orphans' = orphans + Dropped(running_processes)
                         /\ process_results' = EmptyMap
                         /\ running_scripts' = {}
                         /\ last_status' = Some(<<"Switched to: ", preset.name>>)
                         /\ is_error' = FALSE
                         /\ lastOp' = Op("switch", preset_idx, "switched")
                ELSE /\ UNCHANGED << commands, preset_name, last_status, is_error,
                                     slot_state, orphans >>
                     /\ lastOp' = Op("switch", preset_idx, "no_such_preset")

\* --------------------------------------------------------------- the system

\* update(): the reconciliation, the preset switch button (shown when there
\* is more than one preset) and the command buttons; the worker threads and
\* the shell children run beside it
Next ==
    /\ \/ Reconcile
       \/ (Len(preset_order) > 1 /\ switch_to_next_preset)
       \/ \E index \in Slots : run_command(index)
       \/ \E index \in SlotIdx, outcome \in Outcomes : WorkerThread(index, outcome)
       \/ \E index \in SlotIdx, status \in {"exit_ok", "exit_fail"} :
              ChildExit(index, status)
       \/ OrphanExit
    /\ UNCHANGED << resolver_vars, call_vars, state_vars >>

Spec == Init /\ [][Next]_vars

\* ------------------------------------------------------ what a slot shows

\* update(): is_running, the test that colours a slot's icon
is_running(index) ==
    index \in DOMAIN running_processes \/ index \in running_scripts

\* update(): the state a slot is drawn in.  A running entry wins over a
\* finished result; without either the slot is idle.
SlotState(index) ==
    IF index \in DOMAIN running_processes THEN "RunningShell"
    ELSE IF index \in running_scripts THEN "RunningScript"
    ELSE IF index \in DOMAIN process_results
         THEN (IF process_results[index] = "Success" THEN "Succeeded" ELSE "Failed")
         ELSE "Idle"

\* The results waiting in the channel that carry slot `index`
Waiting(index) ==
    Cardinality({k \in 1 .. Len(script_channel) : script_channel[k].index = index})

\* The command of slot `index` has a script / a shell line
HasRun(index) == index < Len(commands) /\ IsSome(commands[index + 1].run)

HasCmd(index) == index < Len(commands) /\ IsSome(commands[index + 1].cmd)

\* This step is run_command(index) taking the named branch
Invoked(index, branch) ==
    run_command(index) /\ lastOp' = Op("run_command", index, branch)

\* ------------------------------------------------------------------- claims

\* C1: over every interleaving of run_command, reconciliation, worker
\* completions and preset switches, no slot index ever has two script
\* executions in flight (worker running, or result sent and not yet received).
C1_OneExecutionPerSlot ==
    \A index \in SlotIdx : workers[index] + Waiting(index) <= 1

\* C2: run_command on a script-backed slot that is marked as a running script
\* changes nothing: no second worker, and the running scripts, the running
\* processes, the results, the status text and the error flag stay as they are.
C2_SecondInvocationIsNoOp ==
    [][\A index \in SlotIdx :
          (run_command(index) /\ HasRun(index) /\ index \in running_scripts)
          => UNCHANGED << running_scripts, running_processes, process_results,
                          last_status, is_error, workers, script_channel, orphans >>
      ]_vars

\* C2 happens: the last operation was an invocation of a slot whose script
\* was running, and the slot is still marked running.
C2_Witness ==
    /\ lastOp.op = "run_command" /\ lastOp.branch = "already_running"
    /\ HasRun(lastOp.index) /\ lastOp.index \in running_scripts
    /\ workers[lastOp.index] + Waiting(lastOp.index) = 1

\* C3: every script dispatch starts exactly one worker, and every worker,
\* whether its script succeeds, fails or panics, sends exactly one result
\* carrying its slot index: a worker never ends without sending, and no
\* result for a slot appears in the channel except as a worker of that slot
\* ends.
C3_OneResultPerDispatch ==
    [][\A index \in SlotIdx :
          /\ workers'[index] > workers[index]
                => /\ workers'[index] = workers[index] + 1
                   /\ Invoked(index, "script_dispatched")
                   /\ script_channel' = script_channel
          /\ workers'[index] < workers[index]
                => /\ workers'[index] = workers[index] - 1
                   /\ Len(script_channel') = Len(script_channel) + 1
                   /\ SubSeq(script_channel', 1, Len(script_channel)) = script_channel
                   /\ script_channel'[Len(script_channel')].index = index
          /\ workers'[index] >= workers[index]
                => Waiting(index)' <= Waiting(index)
      ]_vars

\* C3 happens: two workers of different slots have ended, one of them by a
\* panic, and the channel holds one result for each.
C3_Witness ==
    /\ Len(script_channel) = 2
    /\ script_channel[1].index # script_channel[2].index
    /\ \E k \in 1 .. 2 : script_channel[k].message = <<"Script panicked">>
    /\ \A index \in SlotIdx : workers[index] = 0

\* C4: a worker whose script panics still sends success = false with the
\* message "Script panicked", and after the reconciliation that receives it
\* the slot is Failed and no longer running.
C4_PanicEndsFailed ==
    [][\A index \in SlotIdx :
          /\ WorkerThread(index, "panic")
                => script_channel' =
                       Append(script_channel,
                              [index |-> index, success |-> FALSE,
                               message |-> <<"Script panicked">>])
          /\ (/\ Reconcile
              /\ \E k \in 1 .. Len(script_channel) :
                     /\ script_channel[k].index = index
                     /\ script_channel[k].message = <<"Script panicked">>)
                => SlotState(index)' = "Failed"
      ]_vars

\* C5: a slot that is tracked as running (shell child or script) never holds
\* a finished result at the same time.
C5_RunningHoldsNoResult ==
    \A index \in SlotIdx :
        is_running(index) => index \notin DOMAIN process_results

\* C6: when run_command spawns a shell child for a slot, the slot becomes
\* Running(ShellProcess); every other slot that was Succeeded becomes Idle;
\* every other slot that was Failed or Running keeps its state, and its
\* Failed result and running entries are untouched.
C6_SpawnClearsOnlySuccesses ==
    [][\A index \in SlotIdx :
          Invoked(index, "shell_spawned")
          => /\ SlotState(index)' = "RunningShell"
             /\ \A other \in SlotIdx \ {index} :
                   /\ SlotState(other) = "Succeeded" => SlotState(other)' = "Idle"
                   /\ SlotState(other) \in {"Failed", "RunningShell", "RunningScript"}
                         => SlotState(other)' = SlotState(other)
                   /\ (other \in DOMAIN process_results
                          /\ process_results[other] = "Failed")
                         => (other \in DOMAIN process_results'
                               /\ process_results'[other] = "Failed")
                   /\ other \in DOMAIN running_processes
                         => (other \in DOMAIN running_processes'
                               /\ running_processes'[other] = running_processes[other])
                   /\ (other \in running_scripts) <=> (other \in running_scripts')
      ]_vars

\* C6 happens: the last operation spawned a child for a slot, which is
\* tracked, while another slot still holds its Failed result.
C6_Witness ==
    /\ lastOp.op = "run_command" /\ lastOp.branch = "shell_spawned"
    /\ lastOp.index \in DOMAIN running_processes
    /\ \E other \in SlotIdx \ {lastOp.index} : SlotState(other) = "Failed"

\* C7: when the spawn for a slot fails, the slot is recorded as Failed at
\* once, no running entry and no child or worker is created, the error flag
\* is set with a status carrying the OS error, and every other slot keeps its
\* result (Succeeded included) and its state.
C7_SpawnFailureMarksFailed ==
    [][\A index \in SlotIdx :
          Invoked(index, "spawn_failed")
          => /\ index \in DOMAIN process_results'
             /\ process_results'[index] = "Failed"
             /\ UNCHANGED << running_processes, running_scripts, environment >>
             /\ is_error' = TRUE
             /\ last_status' = Some(<<"Failed: ", "os error">>)
             /\ \A other \in SlotIdx \ {index} :
                   /\ (other \in DOMAIN process_results)
                         <=> (other \in DOMAIN process_results')
                   /\ other \in DOMAIN process_results
                         => process_results'[other] = process_results[other]
                   /\ SlotState(other)' = SlotState(other)
      ]_vars

\* C7 happens: the last operation was a failed spawn, its slot is Failed,
\* the error flag is set, and another slot still shows Succeeded.
C7_Witness ==
    /\ lastOp.op = "run_command" /\ lastOp.branch = "spawn_failed"
    /\ SlotState(lastOp.index) = "Failed"
    /\ is_error /\ last_status = Some(<<"Failed: ", "os error">>)
    /\ \E other \in SlotIdx \ {lastOp.index} : SlotState(other) = "Succeeded"

\* C8: when the shell line holds the clipboard placeholder and the clipboard
\* read fails, run_command sets an error status and the error flag, starts no
\* process, and leaves the running entries and results of every slot as they
\* are.
C8_ClipboardFailureAborts ==
    [][\A index \in SlotIdx :
          Invoked(index, "clipboard_failed")
          => /\ HasCmd(index) /\ ~HasRun(index)
             /\ ContainsClipboard(Unwrap(commands[index + 1].cmd))
             /\ last_status' = Some(<<"Failed to read clipboard">>)
             /\ is_error' = TRUE
             /\ UNCHANGED << slot_state, environment >>
      ]_vars

\* C8 happens: the last operation was an invocation stopped by the
\* clipboard, the error is shown, and the slots hold a running child and a
\* finished result that the invocation left alone.
C8_Witness ==
    /\ lastOp.op = "run_command" /\ lastOp.branch = "clipboard_failed"
    /\ is_error /\ last_status = Some(<<"Failed to read clipboard">>)
    /\ lastOp.index \notin DOMAIN running_processes
    /\ \E other \in SlotIdx : SlotState(other) = "RunningShell"
    /\ \E other \in SlotIdx : other \in DOMAIN process_results

\* C9: invoking a command with neither `cmd` nor `run` sets the error flag
\* and the status "No command or script defined", starts no process or
\* worker, changes no per-slot state, and leaves the slot Idle.
C9_NothingDefinedLeavesIdle ==
    [][\A index \in SlotIdx :
          (run_command(index) /\ index < Len(commands)
             /\ ~HasRun(index) /\ ~HasCmd(index))
          => /\ is_error' = TRUE
             /\ last_status' = Some(<<"No command or script defined">>)
             /\ UNCHANGED << slot_state, environment >>
             /\ SlotState(index)' = "Idle"
      ]_vars

\* C10: invoking a command that has both `cmd` and `run` dispatches only the
\* script: the slot becomes Running(ScriptTask), no shell child is spawned,
\* and such a slot is never tracked as a running process.
C10_RunTakesPriority ==
    [][\A index \in SlotIdx :
          /\ (run_command(index) /\ HasRun(index) /\ HasCmd(index))
                => /\ SlotState(index)' = "RunningScript"
                   /\ UNCHANGED << running_processes, orphans >>
          /\ (HasRun(index) /\ HasCmd(index))'
                => index \notin DOMAIN running_processes'
      ]_vars

\* C10 happens: the last operation dispatched the script of a command that
\* has both fields, and the slot is a running script with no child tracked.
C10_Witness ==
    /\ lastOp = Op("run_command", lastOp.index, "script_dispatched")
    /\ HasRun(lastOp.index) /\ HasCmd(lastOp.index)
    /\ SlotState(lastOp.index) = "RunningScript"
    /\ running_processes = EmptyMap /\ orphans = 0

\* ------------------------------------- C11: check_processes on exited children

\* update(): the state a slot is drawn in, read from the fields `st`
SlotStateIn(st, index) ==
    IF index \in DOMAIN st.running_processes THEN "RunningShell"
    ELSE IF index \in st.running_scripts THEN "RunningScript"
    ELSE IF index \in DOMAIN st.process_results
         THEN (IF st.process_results[index] = "Success" THEN "Succeeded" ELSE "Failed")
         ELSE "Idle"

\* The orders in which check_processes can meet its finished slots, given by
\* the slot it meets last (-1: no slot has finished)
LastVisited(poll_err) ==
    IF Finished(poll_err) = {} THEN {-1} ELSE Finished(poll_err)

BeforeReceive(poll_err, last, k) ==
    check_scripts(check_processes(AppFields, poll_err, last),
                  SubSeq(script_channel, 1, k - 1))

\* C12: on a reconciliation tick every script result received from the
\* channel leaves its slot Succeeded when success is true and Failed
\* otherwise; on failure the status text is the engine's message and the
\* error flag is set, on success the status is "Done: <name>" and the error
\* flag is cleared.
C12_ScriptResultReconciled ==
    \A poll_err \in SUBSET DOMAIN running_processes :
    \A last \in LastVisited(poll_err) :
    \A k \in 1 .. Len(script_channel) :
        LET result == script_channel[k]
            st == ReceiveResult(BeforeReceive(poll_err, last, k), result)
        IN  /\ SlotStateIn(st, result.index) =
                   (IF result.success THEN "Succeeded" ELSE "Failed")
            /\ result.index \in Slots
            /\ st.last_status =
                   Some(IF result.success
                        THEN <<"Done: ", commands[result.index + 1].name>>
                        ELSE result.message)
            /\ st.is_error = ~result.success

\* ------------------------------------------- C13: a switch clears every slot

\* A step that is a preset switch taking effect
Switched == switch_to_next_preset /\ lastOp'.op = "switch" /\ lastOp'.branch = "switched"

\* C13: switch_to_next_preset clears all per-slot state of every slot (the
\* running shell entries, the running script markers, the Succeeded and the
\* Failed results), so right after a switch every slot is Idle; it replaces
\* the active command list by the first max_icons commands of the new
\* preset, and the active list never exceeds max_icons.
C13_SwitchClearsEverySlot ==
    [][ /\ Len(commands) <= max_icons
        /\ Len(commands') <= max_icons
        /\ Switched =>
            /\ running_processes' = EmptyMap
            /\ running_scripts' = {}
            /\ process_results' = EmptyMap
            /\ \A index \in SlotIdx : SlotState(index)' = "Idle"
            /\ commands' = Take(loaded_presets[lastOp'.index + 1].commands, max_icons)
            /\ lastOp'.index = preset_order[current_preset_idx' + 1]
      ]_vars

\* A switch has just activated a preset with more than max_icons commands;
\* it dropped a running child, and a worker of the previous preset still runs
C13_Witness ==
    /\ lastOp.op = "switch" /\ lastOp.branch = "switched"
    /\ Len(loaded_presets[lastOp.index + 1].commands) > max_icons
    /\ Len(commands) = max_icons
    /\ \A index \in SlotIdx : SlotState(index) = "Idle"
    /\ orphans > 0
    /\ \E index \in SlotIdx : workers[index] > 0

\* ------------------------------------------- C14: the switch order is a cycle

\* The preset lists a configuration can hand to LaunchBarApp::new: none, the
\* first presets of all_presets, a list in which global presets and
\* detectable ones alternate, and a list whose second preset has fewer
\* commands than its first
PresetLists ==
    LET Notes == Preset("Notes", None, None,
                        << CommandConfig("note", Some("open $clipboard"), None) >>)
    IN  {Take(all_presets, n) : n \in 0 .. Len(all_presets)}
            \cup {<< all_presets[3], all_presets[1], Notes, all_presets[2] >>,
                  << all_presets[2], Notes >>}

\* main() and LaunchBarApp::new for any preset list: the caller passes the
\* commands of the detected preset, or else the fallback commands (the first
\* global preset's), or else none
InitSwitch ==
    \E presets \in PresetLists :
    \E detected_idx \in {None} \cup {Some(i) : i \in 0 .. (Len(presets) - 1)} :
        LET fallback == {i \in 1 .. Len(presets) : is_global(presets[i])}
            base == IF IsSome(detected_idx)
                    THEN presets[Unwrap(detected_idx) + 1].commands
                    ELSE IF fallback # {}
                         THEN presets[CHOOSE i \in fallback :
                                          \A o \in fallback : i <= o].commands
                         ELSE << >>
        IN  /\ loaded_presets = presets
            /\ commands = Take(base, max_icons)
            /\ preset_name = IF IsSome(detected_idx)
                             THEN Some(presets[Unwrap(detected_idx) + 1].name)
                             ELSE None
            /\ preset_order = build_preset_order(presets, detected_idx)
            /\ current_preset_idx = 0
            /\ last_status = None
            /\ is_error = FALSE
            /\ running_processes = EmptyMap
            /\ process_results = EmptyMap
            /\ running_scripts = {}
            /\ script_channel = << >>
            /\ orphans = 0
            /\ workers = [i \in SlotIdx |-> 0]
            /\ lastOp = Op("new", -1, "new")
            /\ ResolverNew
            /\ NothingCalled
            /\ NothingStored

\* The application's own operations, with switch_to_next_preset called
\* whatever the length of the order
NextSwitch ==
    /\ \/ switch_to_next_preset
       \/ \E index \in Slots : run_command(index)
       \/ Reconcile
    /\ UNCHANGED << resolver_vars, call_vars, state_vars >>

SpecSwitch == InitSwitch /\ [][NextSwitch]_vars

\* The pointer after k switches from position ptr in an order of n entries
RECURSIVE PointerAfter(_, _, _)
PointerAfter(ptr, n, k) ==
    IF k = 0 THEN ptr ELSE PointerAfter((ptr + 1) % n, n, k - 1)

\* C14: preset switching is cyclic over the precomputed order: the pointer
\* is always a valid index of a non-empty order and the active preset is
\* the one the order names at the pointer; a switch moves the pointer one
\* position on, wrapping at the end, and activates the preset the order
\* names there, so N consecutive switches (N the length of the order)
\* activate each entry of the order exactly once and come back to the entry
\* they started from; a switch with an empty order changes nothing.
C14_SwitchIsCyclic ==
    [][ LET N == Len(preset_order)
        IN  /\ N > 0 => current_preset_idx \in 0 .. (N - 1)
            /\ N > 0 => current_preset_idx' \in 0 .. (N - 1)
            /\ \A k \in 1 .. N : preset_order[k] \in 0 .. (Len(loaded_presets) - 1)
            /\ IsSome(preset_name) =>
                LET active == loaded_presets[preset_order[current_preset_idx + 1] + 1]
                IN  /\ preset_name = Some(active.name)
                    /\ commands = Take(active.commands, max_icons)
            /\ (switch_to_next_preset /\ lastOp'.op = "switch" /\ N > 0) =>
                /\ current_preset_idx' = PointerAfter(current_preset_idx, N, 1)
                /\ preset_order' = preset_order
                /\ LET preset == loaded_presets[preset_order[current_preset_idx' + 1] + 1]
                   IN  /\ preset_name' = Some(preset.name)
                       /\ commands' = Take(preset.commands, max_icons)
                /\ {PointerAfter(current_preset_idx, N, k) : k \in 1 .. N} = 0 .. (N - 1)
                /\ PointerAfter(current_preset_idx, N, N) = current_preset_idx
            /\ (switch_to_next_preset /\ lastOp'.op = "switch" /\ N = 0) =>
                UNCHANGED << preset_state, last_status, is_error, slot_state,
                             environment >>
      ]_vars

\* A switch from the last position of a three-entry order has just wrapped
\* to the first entry and activated it
C14_Witness ==
    /\ lastOp.op = "switch" /\ lastOp.branch = "switched"
    /\ Len(preset_order) = 3
    /\ current_preset_idx = 0
    /\ lastOp.index = preset_order[1]
    /\ preset_name = Some(loaded_presets[preset_order[1] + 1].name)

\* ------------------------------------------------ C15: nothing is cancelled

\* The shell children that have not exited, tracked or not
RunningChildren ==
    Cardinality({i \in DOMAIN running_processes : running_processes[i] = "running"})
        + orphans

\* C15: no runner operation cancels work: a worker thread leaves only by
\* finishing and sending its result, a shell child stops running only by
\* exiting on its own; no operation of the application reduces the workers
\* or the running children, and a preset switch removes the tracking entries
\* while every worker and every running child runs on.
C15_NothingIsCancelled ==
    [][ /\ \A index \in SlotIdx :
            /\ workers'[index] >= workers[index] - 1
            /\ workers'[index] < workers[index] =>
                   \E outcome \in Outcomes : WorkerThread(index, outcome)
        /\ RunningChildren' >= RunningChildren - 1
        /\ RunningChildren' < RunningChildren =>
               \/ OrphanExit
               \/ \E index \in SlotIdx, status \in {"exit_ok", "exit_fail"} :
                      ChildExit(index, status)
        /\ lastOp' # lastOp =>
            /\ \A index \in SlotIdx : workers'[index] >= workers[index]
            /\ RunningChildren' >= RunningChildren
        /\ Switched =>
            /\ workers' = workers
            /\ RunningChildren' = RunningChildren
            /\ running_processes' = EmptyMap /\ running_scripts' = {}
      ]_vars

\* Right after a switch nothing is tracked, while a dropped child and a
\* worker of the previous preset both run on
C15_Witness ==
    /\ lastOp.op = "switch" /\ lastOp.branch = "switched"
    /\ running_processes = EmptyMap /\ running_scripts = {}
    /\ RunningChildren = 1 /\ orphans = 1
    /\ SumUpTo(workers, max_icons - 1) = 1

\* ------------------------------------------------ the resolver's operations

\* How many configurations are added at most
MaxAdds == 2

\* PresetResolver::add_config
add_config(config, source) ==
    /\ add_count < MaxAdds
    /\ resolver_window' = merge_window(resolver_window, config.window)
    /\ LET global_preset == commands_as_preset(config)
           top == IF IsSome(global_preset)
                  THEN <<ResolvedPreset(Unwrap(global_preset), source)>>
                  ELSE << >>
           declared == [i \in 1 .. Len(config.presets) |->
                           ResolvedPreset(config.presets[i], source)]
       IN  resolver_presets' = resolver_presets \o top \o declared
    /\ add_count' = add_count + 1
    /\ resolved' = None
    /\ selection' = NoSelection
    /\ UNCHANGED << explicit_preset, given >>

\* PresetResolver::add_global
add_global(config) == add_config(config, Global)

\* PresetResolver::add_project
add_project(config) == add_config(config, Project)

\* PresetResolver::set_arg_preset
set_arg_preset(name) ==
    /\ explicit_preset' = Some(<<name, Arg>>)
    /\ given' = [given EXCEPT !.arg = Some(name), !.last = Some(Arg)]
    /\ resolved' = None
    /\ selection' = NoSelection
    /\ UNCHANGED << resolver_presets, resolver_window, add_count >>

\* set_env_preset that records its name whatever is already selected
set_env_preset_Overwrites(name) ==
    /\ explicit_preset' = Some(<<name, Env>>)
    /\ given' = [given EXCEPT !.env = Some(name), !.last = Some(Env)]
    /\ resolved' = None
    /\ selection' = NoSelection
    /\ UNCHANGED << resolver_presets, resolver_window, add_count >>

\* PresetResolver::set_env_preset: only when no CLI argument is recorded
set_env_preset(name) ==
    /\ explicit_preset' =
           IF IsSome(explicit_preset) /\ Unwrap(explicit_preset)[2] = Arg
           THEN explicit_preset
           ELSE Some(<<name, Env>>)
    /\ given' = [given EXCEPT !.env = Some(name), !.last = Some(Env)]
    /\ resolved' = None
    /\ selection' = NoSelection
    /\ UNCHANGED << resolver_presets, resolver_window, add_count >>

\* resolve(), the loop body that fills by_name: a later preset replaces the
\* one recorded under its key only when its source is strictly higher
KeepOrReplace_AlwaysReplaces(by_name, r) ==
    MapInsert(by_name, to_lowercase(r.preset.name), r)

\* The loop body replacing on equal priority too
KeepOrReplace_ReplacesOnEqual(by_name, r) ==
    LET key == to_lowercase(r.preset.name)
    IN  IF key \in DOMAIN by_name /\ by_name[key].source > r.source
        THEN by_name
        ELSE MapInsert(by_name, key, r)

\* resolve(): match by_name.get(&key) { Some(existing) if existing.source >=
\* resolved.source => skip, _ => insert }
KeepOrReplace(by_name, r) ==
    LET key == to_lowercase(r.preset.name)
    IN  IF key \in DOMAIN by_name /\ by_name[key].source >= r.source
        THEN by_name
        ELSE MapInsert(by_name, key, r)

\* resolve(): for resolved in &self.presets
RECURSIVE GroupByName(_, _)
GroupByName(by_name, rest) ==
    IF rest = << >> THEN by_name
    ELSE GroupByName(KeepOrReplace(by_name, Head(rest)), Tail(rest))

\* The orders in which HashMap::into_values can yield the entries of a map
\* with key set S
RECURSIVE IterationOrders(_)
IterationOrders(S) ==
    IF S = {} THEN {<< >>}
    ELSE UNION {{<<k>> \o o : o \in IterationOrders(S \ {k})} : k \in S}

\* The entries of seq whose source is `source`, in their order
FromSource(seq, source) ==
    LET Test(r) == r.source = source IN SelectSeq(seq, Test)

\* A sort that puts the higher sources first
sort_by_key_Descending(seq) ==
    FromSource(seq, Env) \o FromSource(seq, Arg) \o FromSource(seq, Project)
        \o FromSource(seq, Global)

\* Vec::sort_by_key(|r| r.source): stable, ascending
sort_by_key(seq) ==
    FromSource(seq, Global) \o FromSource(seq, Project) \o FromSource(seq, Arg)
        \o FromSource(seq, Env)

\* PresetResolver::resolve, with the order in which by_name yields its values
resolve(order) ==
    LET by_name == GroupByName(EmptyMap, resolver_presets)
        values == [i \in 1 .. Len(order) |-> by_name[order[i]]]
        IsGlobal(r) == is_global(r.preset)
        IsOther(r) == ~is_global(r.preset)
        global_presets == sort_by_key(SelectSeq(values, IsGlobal))
        other_presets == sort_by_key(SelectSeq(values, IsOther))
    IN  [presets |-> global_presets \o other_presets,
         window |-> resolver_window,
         explicit_preset |-> explicit_preset]

\* A call of resolve()
Resolve ==
    /\ \E order \in IterationOrders(DOMAIN GroupByName(EmptyMap, resolver_presets)) :
           resolved' = Some(resolve(order))
    /\ selection' = NoSelection
    /\ UNCHANGED << resolver_presets, resolver_window, explicit_preset,
                    add_count, given >>

\* ------------------------------------------------------ the preset detector

\* str::chars of the patterns and paths that occur
Chars(str) ==
    CASE str = "~/docs/*" -> <<"~", "/", "d", "o", "c", "s", "/", "*">>
      [] str = "~/rs/*" -> <<"~", "/", "r", "s", "/", "*">>
      [] str = "~/rs" -> <<"~", "/", "r", "s">>
      [] str = "/h" -> <<"/", "h">>
      [] str = "/h/docs" -> <<"/", "h", "/", "d", "o", "c", "s">>
      [] str = "/h/docs/a" -> <<"/", "h", "/", "d", "o", "c", "s", "/", "a">>
      [] str = "/h/rs" -> <<"/", "h", "/", "r", "s">>
      [] str = "/h/rs/app" -> <<"/", "h", "/", "r", "s", "/", "a", "p", "p">>
      [] str = "/tmp" -> <<"/", "t", "m", "p">>
      [] str = "@x.lua" -> <<"@", "x", ".", "l", "u", "a">>
      [] str = "@x.rhai" -> <<"@", "x", ".", "r", "h", "a", "i">>
      [] str = "@x.py" -> <<"@", "x", ".", "p", "y">>
      [] str = "x.lua" -> <<"x", ".", "l", "u", "a">>
      [] str = "x.rhai" -> <<"x", ".", "r", "h", "a", "i">>
      [] str = "f()" -> <<"f", "(", ")">>
      [] str = "a()" -> <<"a", "(", ")">>
      [] str = "b()" -> <<"b", "(", ")">>
      [] str = "c()" -> <<"c", "(", ")">>
      [] str = "d()" -> <<"d", "(", ")">>
      [] str = "@sub/x.rhai" -> <<"@", "s", "u", "b", "/", "x", ".", "r", "h", "a", "i">>
      [] str = "@../x.lua" -> <<"@", ".", ".", "/", "x", ".", "l", "u", "a">>
      [] str = "@/opt/x.rhai" -> <<"@", "/", "o", "p", "t", "/", "x", ".", "r", "h", "a", "i">>
      [] str = "@" -> <<"@">>
      [] str = "/h/rs/x.lua" -> <<"/", "h", "/", "r", "s", "/", "x", ".", "l", "u", "a">>
      [] str = "/h/x.lua" -> <<"/", "h", "/", "x", ".", "l", "u", "a">>
      [] str = "/h/rs/sub" -> <<"/", "h", "/", "r", "s", "/", "s", "u", "b">>
      [] str = "/h/rs/sub/x.rhai" -> <<"/", "h", "/", "r", "s", "/", "s", "u", "b", "/", "x", ".", "r", "h", "a", "i">>
      [] str = "/opt" -> <<"/", "o", "p", "t">>
      [] str = "/opt/x.rhai" -> <<"/", "o", "p", "t", "/", "x", ".", "r", "h", "a", "i">>
      [] str = ".rhai" -> <<".", "r", "h", "a", "i">>
      [] str = ".lua" -> <<".", "l", "u", "a">>

\* str::starts_with
starts_with(chars, prefix) ==
    Len(prefix) <= Len(chars) /\ SubSeq(chars, 1, Len(prefix)) = prefix

\* str::ends_with
ends_with(chars, suffix) ==
    /\ Len(suffix) <= Len(chars)
    /\ SubSeq(chars, Len(chars) - Len(suffix) + 1, Len(chars)) = suffix

\* The home directory of the user
HomeDir == Chars("/h")

\* shellexpand::tilde: a leading "~" that is the whole text or is followed by
\* "/" becomes the home directory
tilde(chars) ==
    IF chars # << >> /\ chars[1] = "~" /\ (Len(chars) = 1 \/ chars[2] = "/")
    THEN HomeDir \o Tail(chars)
    ELSE chars

\* A working directory: its path and the relative paths that exist under it
WorkingDir(path, files) == [path |-> path, files |-> files]

\* The working directories checked
WorkingDirs ==
    { WorkingDir("/h/docs/a", {"Cargo.lock"}),
      WorkingDir("/h/docs", {}),
      WorkingDir("/h/rs", {"Cargo.toml"}),
      WorkingDir("/h/rs/app", {"Cargo.toml", "Cargo.lock"}),
      WorkingDir("/tmp", {}) }

\* detect_preset_idx, check of detect_file: working_dir.join(file).exists()
FileDetected(working_dir, preset) ==
    IsSome(preset.detect_file) /\ Unwrap(preset.detect_file) \in working_dir.files

\* detect_preset_idx, check of cwd_pattern: prefix match for a trailing "*",
\* else equality, after tilde expansion
PatternDetected(working_dir, preset) ==
    /\ IsSome(preset.cwd_pattern)
    /\ LET expanded == tilde(Chars(Unwrap(preset.cwd_pattern)))
           cwd_str == Chars(working_dir.path)
       IN  IF ends_with(expanded, <<"*">>)
           THEN starts_with(cwd_str, SubSeq(expanded, 1, Len(expanded) - 1))
           ELSE cwd_str = expanded

\* detect_preset_idx from position i (1-based) on
RECURSIVE DetectFrom(_, _, _)
DetectFrom(working_dir, presets, i) ==
    IF i > Len(presets) THEN None
    ELSE IF FileDetected(working_dir, presets[i]) THEN Some(i - 1)
    ELSE IF PatternDetected(working_dir, presets[i]) THEN Some(i - 1)
    ELSE DetectFrom(working_dir, presets, i + 1)

\* A detector that returns the last preset that matches
detect_preset_idx_LastMatch(working_dir, presets) ==
    LET hits == {i \in 1 .. Len(presets) :
                    \/ FileDetected(working_dir, presets[i])
                    \/ PatternDetected(working_dir, presets[i])}
    IN  IF hits = {} THEN None
        ELSE Some((CHOOSE i \in hits : \A o \in hits : o <= i) - 1)

\* A detector that takes a preset without rules for a match
detect_preset_idx_GlobalMatches(working_dir, presets) ==
    LET hits == {i \in 1 .. Len(presets) :
                    \/ FileDetected(working_dir, presets[i])
                    \/ PatternDetected(working_dir, presets[i])
                    \/ is_global(presets[i])}
    IN  IF hits = {} THEN None
        ELSE Some((CHOOSE i \in hits : \A o \in hits : i <= o) - 1)

\* detect::detect_preset_idx
detect_preset_idx(working_dir, presets) == DetectFrom(working_dir, presets, 1)

\* str::eq_ignore_ascii_case, on the names that occur (all are ASCII)
eq_ignore_ascii_case(a, b) == to_lowercase(a) = to_lowercase(b)

\* ResolvedConfig::find_preset: position() of the first equal name
find_preset(presets, name) ==
    LET hits == {i \in 1 .. Len(presets) :
                    eq_ignore_ascii_case(presets[i].preset.name, name)}
    IN  IF hits = {} THEN None
        ELSE Some((CHOOSE i \in hits : \A o \in hits : i <= o) - 1)

\* ResolvedConfig::presets(): the presets without their source
WithoutSource(presets) == [i \in 1 .. Len(presets) |-> presets[i].preset]

\* An initial selection that ignores the explicit preset
detect_preset_IgnoresExplicit(config, working_dir) ==
    detect_preset_idx(working_dir, WithoutSource(config.presets))

\* ResolvedConfig::detect_preset
detect_preset(config, working_dir) ==
    LET found == IF IsSome(config.explicit_preset)
                 THEN find_preset(config.presets, Unwrap(config.explicit_preset)[1])
                 ELSE None
    IN  IF IsSome(found) THEN found
        ELSE detect_preset_idx(working_dir, WithoutSource(config.presets))

\* A call of detect_preset on the ResolvedConfig that resolve() returned
SelectInitial(working_dir) ==
    /\ IsSome(resolved)
    /\ selection' = [presets |-> Unwrap(resolved).presets,
                     explicit_preset |-> Unwrap(resolved).explicit_preset,
                     working_dir |-> Some(working_dir),
                     result |-> Some(detect_preset(Unwrap(resolved), working_dir))]
    /\ UNCHANGED resolver_vars

\* LaunchBarApp is built only after the configuration is resolved
AppNotBuilt ==
    /\ loaded_presets = << >>
    /\ commands = << >>
    /\ preset_name = None
    /\ preset_order = << >>
    /\ current_preset_idx = 0
    /\ last_status = None
    /\ is_error = FALSE
    /\ running_processes = EmptyMap
    /\ process_results = EmptyMap
    /\ running_scripts = {}
    /\ script_channel = << >>
    /\ orphans = 0
    /\ workers = [i \in SlotIdx |-> 0]
    /\ lastOp = Op("new", -1, "new")

InitResolver == ResolverNew /\ AppNotBuilt /\ NothingCalled /\ NothingStored

\* The calls a caller can make on a PresetResolver, in any order
NextResolver ==
    /\ \/ \E config \in Configs : add_global(config)
       \/ \E config \in Configs : add_project(config)
       \/ \E name \in SelectedNames : set_arg_preset(name)
       \/ \E name \in SelectedNames : set_env_preset(name)
       \/ Resolve
       \/ \E working_dir \in WorkingDirs : SelectInitial(working_dir)
    /\ UNCHANGED << app_vars, script_call, run_call, state_vars >>

SpecResolver == InitResolver /\ [][NextResolver]_vars

\* ----------------------------------------- C16: one preset per name, by rank

\* The positions of the collected presets whose lower-cased name is `key`
Named(key) ==
    {i \in 1 .. Len(resolver_presets) :
        to_lowercase(resolver_presets[i].preset.name) = key}

\* The lower-cased names among the collected presets
CollectedKeys ==
    {to_lowercase(resolver_presets[i].preset.name) : i \in 1 .. Len(resolver_presets)}

\* C16: resolve() deduplicates by lower-cased preset name: its list holds
\* exactly one preset for every distinct lower-cased name collected and none
\* else; each is one of the collected presets of that name, fields and source
\* tag as collected, and no collected preset of that name comes from a source
\* of higher priority, in whatever order the sources were added.
C16_HigherPriorityWins ==
    IsSome(resolved) =>
        LET out == Unwrap(resolved).presets
        IN  /\ Len(out) = Cardinality(CollectedKeys)
            /\ \A key \in CollectedKeys :
                   \E j \in 1 .. Len(out) :
                       /\ to_lowercase(out[j].preset.name) = key
                       /\ \A o \in 1 .. Len(out) :
                              to_lowercase(out[o].preset.name) = key => o = j
                       /\ \E i \in Named(key) : out[j] = resolver_presets[i]
                       /\ \A i \in Named(key) :
                              resolver_presets[i].source <= out[j].source

\* resolve() has returned the Project "rust" although the Global "Rust" was
\* added after it
C16_Witness ==
    /\ IsSome(resolved)
    /\ \E i, k \in 1 .. Len(resolver_presets) :
        /\ i < k
        /\ resolver_presets[i].source = Project
        /\ resolver_presets[k].source = Global
        /\ resolver_presets[i].preset.name = "rust"
        /\ resolver_presets[k].preset.name = "Rust"
        /\ \E j \in 1 .. Len(Unwrap(resolved).presets) :
               Unwrap(resolved).presets[j] = resolver_presets[i]

\* ------------------------------------------- C17: equal priority, same name

\* The positions of the collected presets that share the lower-cased name
\* and the source of r
Rivals(r) ==
    {i \in Named(to_lowercase(r.preset.name)) : resolver_presets[i].source = r.source}

\* C17: when two collected presets share the same lower-cased name and come
\* from sources of equal priority, resolve() keeps the one that was added
\* later: each preset of the resolved list is the last collected among those
\* of its name and source.
C17_LaterAddedWins ==
    IsSome(resolved) =>
        LET out == Unwrap(resolved).presets
        IN  \A j \in 1 .. Len(out) :
                \A i \in Rivals(out[j]) :
                    (\A o \in Rivals(out[j]) : o <= i) => out[j] = resolver_presets[i]

\* C17, amended: when two collected presets share the same lower-cased name
\* and come from sources of equal priority, resolve() keeps the one that was
\* added earlier: each preset of the resolved list is the first collected
\* among those of its name and source.
C17_EarlierAddedWins ==
    IsSome(resolved) =>
        LET out == Unwrap(resolved).presets
        IN  \A j \in 1 .. Len(out) :
                \A i \in Rivals(out[j]) :
                    (\A o \in Rivals(out[j]) : i <= o) => out[j] = resolver_presets[i]

\* resolve() has returned a preset that has a different rival of its own
\* name and source collected after it
C17_Witness ==
    /\ IsSome(resolved)
    /\ \E j \in 1 .. Len(Unwrap(resolved).presets) :
       \E i, k \in Rivals(Unwrap(resolved).presets[j]) :
           /\ i < k
           /\ resolver_presets[i] # resolver_presets[k]
           /\ Unwrap(resolved).presets[j] = resolver_presets[i]

\* --------------------------------------------- C18: two tiers, each by rank

\* C18: the list resolve() returns is ordered in two tiers: every global
\* (fallback) preset precedes every preset with a detection rule, and within
\* each tier the presets appear in ascending source priority (Global before
\* Project).
C18_TwoTiersByPriority ==
    IsSome(resolved) =>
        LET out == Unwrap(resolved).presets
        IN  \A i, j \in 1 .. Len(out) :
                i < j =>
                    /\ is_global(out[j].preset) => is_global(out[i].preset)
                    /\ is_global(out[i].preset) = is_global(out[j].preset) =>
                           out[i].source <= out[j].source

\* resolve() has returned a list with global presets of both sources and
\* detecting presets of both sources
C18_Witness ==
    /\ IsSome(resolved)
    /\ LET out == Unwrap(resolved).presets
       IN  \A tier \in BOOLEAN, source \in {Global, Project} :
               \E j \in 1 .. Len(out) :
                   is_global(out[j].preset) = tier /\ out[j].source = source

\* ------------------------------------- C19, C20: the explicit preset selection

\* Both --preset and the environment variable have been given
BothGiven == IsSome(given.arg) /\ IsSome(given.env)

\* C19: explicit preset selection follows the source rank Global < Project <
\* Arg < Env whatever the call order: once both an environment selection and
\* a CLI-argument selection have been set, in either order, the recorded
\* explicit selection is the Env one, and setting Arg after Env does not
\* overwrite it.
C19_EnvSelectionWins ==
    BothGiven => explicit_preset = Some(<<Unwrap(given.env), Env>>)

MaxListLen == 3

\* The presets the checked lists are made of: detected by file, by prefix
\* pattern, by file or exact pattern, and not at all
DetectPool ==
    { ResolvedPreset(ConfigPreset("Rust", Some("Cargo.toml"), None, None, None, << >>),
                     Global),
      ResolvedPreset(ConfigPreset("Docs", None, Some("~/docs/*"), None, None, << >>),
                     Project),
      ResolvedPreset(ConfigPreset("rust", Some("Cargo.lock"), Some("~/rs"), None, None,
                                  << >>),
                     Project),
      ResolvedPreset(ConfigPreset("Tools", None, None, None, None, << >>), Global) }

\* The lists of at most n presets of the pool, in every order
RECURSIVE ListsUpTo(_)
ListsUpTo(n) ==
    IF n = 0 THEN {<< >>}
    ELSE LET shorter == ListsUpTo(n - 1)
         IN  shorter \cup {Append(l, r) : l \in shorter, r \in DetectPool}

\* The explicit selections checked: none, the name of a global preset in
\* another case, a name no preset has
ExplicitChoices == {None, Some(<<"tools", Arg>>), Some(<<"Prod", Env>>)}

\* A ResolvedConfig and a working directory, detect_preset not yet called
InitDetect ==
    /\ \E presets \in ListsUpTo(MaxListLen), explicit \in ExplicitChoices,
          working_dir \in WorkingDirs :
           selection = [presets |-> presets, explicit_preset |-> explicit,
                        working_dir |-> Some(working_dir), result |-> None]
    /\ script_call = NoCall
    /\ run_call = NoRun
    /\ NothingStored
    /\ ResolverNew
    /\ AppNotBuilt

\* The call of detect_preset on the ResolvedConfig at hand
DetectCall ==
    /\ selection.result = None
    /\ IsSome(selection.working_dir)
    /\ selection' = [selection EXCEPT
           !.result = Some(detect_preset(selection, Unwrap(selection.working_dir)))]
    /\ UNCHANGED << app_vars, resolver_vars, script_call, run_call, state_vars >>

SpecDetect == InitDetect /\ [][DetectCall]_vars

\* The 0-based positions of the selection's presets with the explicit name
NamedExplicitly ==
    IF IsSome(selection.explicit_preset)
    THEN {i - 1 : i \in {k \in 1 .. Len(selection.presets) :
             to_lowercase(selection.presets[k].preset.name) =
                 to_lowercase(Unwrap(selection.explicit_preset)[1])}}
    ELSE {}

\* The 0-based positions of the selection's presets that a detection rule
\* selects in the working directory
Detectable ==
    IF IsSome(selection.working_dir)
    THEN {i - 1 : i \in {k \in 1 .. Len(selection.presets) :
             \/ FileDetected(Unwrap(selection.working_dir), selection.presets[k].preset)
             \/ PatternDetected(Unwrap(selection.working_dir),
                                selection.presets[k].preset)}}
    ELSE {}

\* The least element of a non-empty set of positions
Least(S) == CHOOSE i \in S : \A o \in S : i <= o

\* C21: initial selection: if an explicit preset name is recorded and some
\* resolved preset has that name ignoring case, the index of that preset is
\* returned, even if it is a global preset or another preset would be
\* detected; if no preset has the name, the result is exactly what the preset
\* detector returns over the list.
C21_ExplicitThenDetection ==
    IsSome(selection.result) =>
        IF NamedExplicitly # {}
        THEN Unwrap(selection.result) = Some(Least(NamedExplicitly))
        ELSE Unwrap(selection.result) =
                 detect_preset_idx(Unwrap(selection.working_dir),
                                   WithoutSource(selection.presets))

\* detect_preset has returned a global preset named explicitly in another
\* case, although an earlier preset of the list is detected
C21_Witness ==
    /\ IsSome(selection.result)
    /\ IsSome(Unwrap(selection.result))
    /\ LET idx == Unwrap(Unwrap(selection.result))
       IN  /\ idx \in NamedExplicitly
           /\ is_global(selection.presets[idx + 1].preset)
           /\ selection.presets[idx + 1].preset.name #
                  Unwrap(selection.explicit_preset)[1]
           /\ \E d \in Detectable : d < idx

\* C22: for every working directory and preset list the detector returns
\* the smallest index whose preset has its detect_file under the working
\* directory or a cwd_pattern that matches (prefix match for a trailing "*",
\* equality otherwise), and none exactly when no preset satisfies either.
C22_FirstMatchWins ==
    (IsSome(selection.result) /\ NamedExplicitly = {}) =>
        IF Detectable = {} THEN Unwrap(selection.result) = None
        ELSE Unwrap(selection.result) = Some(Least(Detectable))

\* The detector has returned the first of two detected presets, which is
\* not the first of the list
C22_Witness ==
    /\ IsSome(selection.result) /\ NamedExplicitly = {}
    /\ Cardinality(Detectable) >= 2
    /\ Unwrap(selection.result) = Some(Least(Detectable))
    /\ Least(Detectable) > 0

\* C23: a global preset (neither detect_file nor cwd_pattern) is never
\* returned by auto-detection, whatever the working directory and wherever it
\* sits in the list: without an explicit selection the initial selection is
\* none or a preset with a detection rule.
C23_GlobalNeverDetected ==
    (IsSome(selection.result) /\ NamedExplicitly = {}) =>
        \/ Unwrap(selection.result) = None
        \/ ~is_global(selection.presets[Unwrap(Unwrap(selection.result)) + 1].preset)

\* Auto-detection has passed over a global preset at the head of the list
\* and returned a later preset
C23_Witness ==
    /\ IsSome(selection.result) /\ selection.explicit_preset = None
    /\ Len(selection.presets) >= 2
    /\ is_global(selection.presets[1].preset)
    /\ IsSome(Unwrap(selection.result))
    /\ Unwrap(Unwrap(selection.result)) >= 1

\* ------------------------------- C24: detection follows the list, not the rank

\* C24: when a non-global preset from a lower-priority source and a
\* differently named non-global preset from a higher-priority source both
\* match the working directory, auto-detection over the resolved list selects
\* the preset of the lower-priority source: the preset it returns has the
\* lowest source among the presets that match.
C24_LowerSourceDetectedFirst ==
    (IsSome(selection.result) /\ NamedExplicitly = {} /\ Detectable # {}) =>
        /\ IsSome(Unwrap(selection.result))
        /\ LET idx == Unwrap(Unwrap(selection.result))
           IN  /\ idx \in Detectable
               /\ \A d \in Detectable :
                      selection.presets[idx + 1].source <=
                          selection.presets[d + 1].source

\* Over a resolved list a Global source's preset has been detected although
\* a Project source's preset matches the working directory too
C24_Witness ==
    /\ IsSome(selection.result) /\ selection.explicit_preset = None
    /\ IsSome(Unwrap(selection.result))
    /\ LET idx == Unwrap(Unwrap(selection.result))
       IN  /\ selection.presets[idx + 1].source = Global
           /\ \E d \in Detectable :
               /\ selection.presets[d + 1].source = Project
               /\ selection.presets[d + 1].preset.name #
                      selection.presets[idx + 1].preset.name

\* ------------------------------------- C25: top-level commands become a preset

\* The entries a step has appended to the collected presets
Appended ==
    SubSeq(resolver_presets', Len(resolver_presets) + 1, Len(resolver_presets'))

\* C25: adding a config with at least one top-level command collects the
\* synthesized preset: named "[Global]", without detection rule (is_global),
\* with the config's top-level commands and the config window's background
\* colour and default script, tagged with the source, followed by the
\* declared presets; a config without top-level commands synthesizes none;
\* so after a config with top-level commands and no declared presets is
\* added alone, resolve() returns exactly that one preset.
C25_CommandsBecomeGlobalPreset ==
    [][ /\ \A config \in Configs, source \in {Global, Project} :
            add_config(config, source) =>
                IF config.commands = << >>
                THEN Appended = [i \in 1 .. Len(config.presets) |->
                                    ResolvedPreset(config.presets[i], source)]
                ELSE /\ Len(Appended) = 1 + Len(config.presets)
                     /\ Appended[1].source = source
                     /\ Appended[1].preset.name = "[Global]"
                     /\ is_global(Appended[1].preset)
                     /\ Appended[1].preset.commands = config.commands
                     /\ Appended[1].preset.base_color = config.window.background_color
                     /\ Appended[1].preset.default_script = config.window.default_script
                     /\ Tail(Appended) = [i \in 1 .. Len(config.presets) |->
                                             ResolvedPreset(config.presets[i], source)]
        /\ (Resolve /\ Len(resolver_presets) = 1) =>
               Unwrap(resolved').presets = resolver_presets
      ]_vars

\* resolve() has returned, for one config added, only the synthesized
\* "[Global]" preset carrying a window colour and a default script
C25_Witness ==
    /\ add_count = 1
    /\ IsSome(resolved)
    /\ Len(Unwrap(resolved).presets) = 1
    /\ LET r == Unwrap(resolved).presets[1]
       IN  /\ r.preset.name = "[Global]"
           /\ is_global(r.preset)
           /\ r.preset.commands # << >>
           /\ IsSome(r.preset.base_color)
           /\ IsSome(r.preset.default_script)
           /\ r.preset.base_color = resolver_window.background_color

\* ------------------------------------------- C26: one fallback after merging

\* The positions of the collected fallback presets of a source
Fallbacks(source) ==
    {i \in Named("[global]") : resolver_presets[i].source = source}

\* C26: when global and project configs are merged the resolved list holds
\* at most one fallback ("[Global]") preset: it is a project config's when a
\* project config has top-level commands, and a global config's when no
\* project config has any and a global config has some.
C26_OneFallbackProjectFirst ==
    IsSome(resolved) =>
        LET out == Unwrap(resolved).presets
            held == {j \in 1 .. Len(out) : to_lowercase(out[j].preset.name) = "[global]"}
        IN  /\ Cardinality(held) <= 1
            /\ Fallbacks(Project) # {} =>
                   \E j \in held, i \in Fallbacks(Project) : out[j] = resolver_presets[i]
            /\ (Fallbacks(Project) = {} /\ Fallbacks(Global) # {}) =>
                   \E j \in held, i \in Fallbacks(Global) : out[j] = resolver_presets[i]
            /\ (Fallbacks(Project) = {} /\ Fallbacks(Global) = {}) => held = {}

\* The project's fallback commands have been resolved although the global
\* config, with other fallback commands, was added after the project config
C26_Witness ==
    /\ IsSome(resolved)
    /\ \E i \in Fallbacks(Project), k \in Fallbacks(Global) :
        /\ i < k
        /\ resolver_presets[i].preset.commands # resolver_presets[k].preset.commands
        /\ \E j \in 1 .. Len(Unwrap(resolved).presets) :
               Unwrap(resolved).presets[j] = resolver_presets[i]

\* ---------------------------------------------- C27: merging window settings

C28_ResolveIsDeterministic ==
    \A order, other \in IterationOrders(DOMAIN GroupByName(EmptyMap, resolver_presets)) :
        resolve(order).presets = resolve(other).presets

\* ------------------------------------------------- script type resolution

\* enum ScriptType
ScriptTypes == {"Rhai", "Lua"}

\* ScriptConfig { global_default, preset_default }
ScriptConfig(global_default, preset_default) ==
    [global_default |-> global_default, preset_default |-> preset_default]

\* str::strip_prefix(char)
strip_prefix(chars, c) ==
    IF chars # << >> /\ chars[1] = c THEN Some(Tail(chars)) ELSE None

\* ScriptType::from_extension
from_extension(path) ==
    IF ends_with(path, Chars(".rhai")) THEN Some("Rhai")
    ELSE IF ends_with(path, Chars(".lua")) THEN Some("Lua")
    ELSE None

\* A resolution that asks the global default before the preset default
resolve_script_type_GlobalFirst(explicit, script, config) ==
    LET path == strip_prefix(Chars(script), "@")
        by_ext == IF IsSome(path) THEN from_extension(Unwrap(path)) ELSE None
    IN  IF IsSome(explicit) THEN Unwrap(explicit)
        ELSE IF IsSome(by_ext) THEN Unwrap(by_ext)
        ELSE IF IsSome(config.global_default) THEN Unwrap(config.global_default)
        ELSE IF IsSome(config.preset_default) THEN Unwrap(config.preset_default)
        ELSE "Rhai"

\* A resolution that reads the extension of any script text
resolve_script_type_AnyExtension(explicit, script, config) ==
    LET by_ext == from_extension(Chars(script))
    IN  IF IsSome(explicit) THEN Unwrap(explicit)
        ELSE IF IsSome(by_ext) THEN Unwrap(by_ext)
        ELSE IF IsSome(config.preset_default) THEN Unwrap(config.preset_default)
        ELSE IF IsSome(config.global_default) THEN Unwrap(config.global_default)
        ELSE "Rhai"

\* script::resolve_script_type
resolve_script_type(explicit, script, config) ==
    LET path == strip_prefix(Chars(script), "@")
        by_ext == IF IsSome(path) THEN from_extension(Unwrap(path)) ELSE None
    IN  IF IsSome(explicit) THEN Unwrap(explicit)
        ELSE IF IsSome(by_ext) THEN Unwrap(by_ext)
        ELSE IF IsSome(config.preset_default) THEN Unwrap(config.preset_default)
        ELSE IF IsSome(config.global_default) THEN Unwrap(config.global_default)
        ELSE "Rhai"

\* The script texts checked: file references with a Lua, a Rhai and an
\* unknown extension, inline text ending in ".lua" and in ".rhai", other
\* inline text
ScriptTexts == {"@x.lua", "@x.rhai", "@x.py", "x.lua", "x.rhai", "f()"}

\* Option<ScriptType>
OptionalTypes == {None} \cup {Some(t) : t \in ScriptTypes}

\* The arguments of a call of resolve_script_type, not yet made
InitScript ==
    /\ \E explicit \in OptionalTypes, script \in ScriptTexts,
          global_default \in OptionalTypes, preset_default \in OptionalTypes :
           script_call = [explicit |-> explicit, script |-> Some(script),
                          config |-> Some(ScriptConfig(global_default, preset_default)),
                          result |-> None]
    /\ selection = NoSelection
    /\ run_call = NoRun
    /\ NothingStored
    /\ ResolverNew
    /\ AppNotBuilt

\* The call of resolve_script_type
ScriptTypeCall ==
    /\ script_call.result = None
    /\ IsSome(script_call.script)
    /\ script_call' = [script_call EXCEPT
           !.result = Some(resolve_script_type(script_call.explicit,
                                               Unwrap(script_call.script),
                                               Unwrap(script_call.config)))]
    /\ UNCHANGED << app_vars, resolver_vars, selection, run_call, state_vars >>

SpecScript == InitScript /\ [][ScriptTypeCall]_vars

\* The language the extension of an "@" file reference names, for the
\* script texts checked
ReferencedExtension(script) ==
    CASE script = "@x.lua" -> Some("Lua")
      [] script = "@x.rhai" -> Some("Rhai")
      [] OTHER -> None

\* The first present element of a chain of optional values
RECURSIVE FirstPresent(_)
FirstPresent(chain) ==
    IF IsSome(Head(chain)) THEN Unwrap(Head(chain)) ELSE FirstPresent(Tail(chain))

\* C29: script-type resolution is total and equals the first present element
\* of the chain [explicit override, extension of an "@" file reference,
\* preset default, global default, Rhai]: for every combination of inputs the
\* call returns exactly that language.
C29_FirstOfPriorityChain ==
    IsSome(script_call.result) =>
        /\ Unwrap(script_call.result) \in ScriptTypes
        /\ Unwrap(script_call.result) =
               FirstPresent(<< script_call.explicit,
                               ReferencedExtension(Unwrap(script_call.script)),
                               Unwrap(script_call.config).preset_default,
                               Unwrap(script_call.config).global_default,
                               Some("Rhai") >>)

\* The preset default has decided against another global default, for a
\* file reference with an unknown extension
C29_Witness ==
    /\ IsSome(script_call.result)
    /\ script_call.explicit = None
    /\ script_call.script = Some("@x.py")
    /\ Unwrap(script_call.config).preset_default = Some("Lua")
    /\ Unwrap(script_call.config).global_default = Some("Rhai")
    /\ Unwrap(script_call.result) = "Lua"

\* The language the defaults give: preset default, else global default,
\* else Rhai
ByDefaults(config) ==
    FirstPresent(<< config.preset_default, config.global_default, Some("Rhai") >>)

\* C30: extension inference applies only to "@" file references: without an
\* explicit override "@x.lua" resolves to Lua and "@x.rhai" to Rhai whatever
\* the defaults, an "@" reference with an unrecognized extension is resolved
\* by the defaults, and so is inline text that merely ends in ".lua" or
\* ".rhai".
C30_ExtensionOnlyForReferences ==
    (IsSome(script_call.result) /\ script_call.explicit = None) =>
        LET script == Unwrap(script_call.script)
            result == Unwrap(script_call.result)
        IN  /\ script = "@x.lua" => result = "Lua"
            /\ script = "@x.rhai" => result = "Rhai"
            /\ script \in {"@x.py", "x.lua", "x.rhai", "f()"} =>
                   result = ByDefaults(Unwrap(script_call.config))

\* Inline text ending in ".lua" has been resolved to Rhai, by the defaults
C30_Witness ==
    /\ IsSome(script_call.result)
    /\ script_call.explicit = None
    /\ script_call.script = Some("x.lua")
    /\ Unwrap(script_call.config).preset_default = None
    /\ Unwrap(script_call.result) = "Rhai"

\* ------------------------------------------------------ the script executor

\* Path::components: the names between the separators; empty names and "."
\* are skipped
RECURSIVE components(_)
components(chars) ==
    IF chars = << >> THEN << >>
    ELSE LET stops == {k \in 1..Len(chars) : chars[k] = "/"}
             n == IF stops = {} THEN Len(chars) + 1
                  ELSE CHOOSE k \in stops : \A other \in stops : k <= other
             name == SubSeq(chars, 1, n - 1)
         IN  (IF name \in {<< >>, <<".">>} THEN << >> ELSE <<name>>)
                 \o components(SubSeq(chars, n + 1, Len(chars)))

\* PathBuf::from
PathBuf(chars) ==
    [absolute |-> starts_with(chars, <<"/">>), components |-> components(chars)]

\* Path::join: an absolute path replaces the base
join(base, path) ==
    IF path.absolute THEN path
    ELSE [base EXCEPT !.components = @ \o path.components]

\* Path::parent: the path without its last component, if it has one
parent(path) ==
    IF path.components = << >> THEN None
    ELSE Some([path EXCEPT !.components = Take(@, Len(@) - 1)])

\* The directory entry a list of components leads to: ".." steps back
RECURSIVE canonical(_)
canonical(names) ==
    IF names = << >> THEN << >>
    ELSE LET before == canonical(Take(names, Len(names) - 1))
             name == names[Len(names)]
         IN  IF name # <<".", ".">> THEN Append(before, name)
             ELSE IF before = << >> THEN << >>
             ELSE Take(before, Len(before) - 1)

\* std::fs::read_to_string: the content of the file the path leads to, if
\* there is one
read_to_string(files, path) ==
    LET found == {f \in files : /\ path.absolute
                                /\ canonical(PathBuf(Chars(f.path)).components)
                                       = canonical(path.components)}
    IN  IF found = {} THEN None ELSE Some(Chars((CHOOSE f \in found : TRUE).content))

\* The engines compiled in: features "rhai-script" and "lua-script"
features == {"Rhai", "Lua"}

\* What an engine's run can return: rhai_engine::run a success or a script
\* error, lua_engine::run also a failure to create the interpreter
EngineOutcomes(script_type) ==
    IF script_type = "Rhai" THEN {"ok", "error"} ELSE {"ok", "error", "init"}

\* rhai_engine::run / lua_engine::run
EngineResult(outcome) ==
    CASE outcome = "ok" -> [success |-> TRUE, message |-> <<"Script completed">>]
      [] outcome = "error" -> [success |-> FALSE, message |-> <<"Script error: ", "e">>]
      [] outcome = "init" ->
             [success |-> FALSE, message |-> <<"Failed to initialize Lua: ", "e">>]

\* The call of an engine
EngineCall(script_type, text, cwd) ==
    [script_type |-> script_type, script |-> text, cwd |-> cwd]

\* What run_script did: the file it read, the engine it called, its result
Ran(read, engine, result) == [read |-> read, engine |-> engine, result |-> result]

\* The match on script_type at the end of run_script
Dispatch(read, script_type, text, cwd, outcome) ==
    IF script_type \in features
    THEN Ran(read, Some(EngineCall(script_type, text, cwd)), EngineResult(outcome))
    ELSE Ran(read, None,
             [success |-> FALSE,
              message |-> IF script_type = "Rhai"
                          THEN <<"Rhai support not compiled in">>
                          ELSE <<"Lua support not compiled in">>])

\* A run_script that leaves the working directory of a script file as it was
run_script_KeepsCwd(script, script_type, cwd, files, outcome) ==
    LET path == strip_prefix(Chars(script), "@")
    IN  IF IsSome(path)
        THEN LET full_path == IF starts_with(Unwrap(path), <<"/">>)
                              THEN PathBuf(Unwrap(path))
                              ELSE join(cwd, PathBuf(Unwrap(path)))
                 content == read_to_string(files, full_path)
             IN  IF IsSome(content)
                 THEN Dispatch(Some(full_path), script_type, Unwrap(content), cwd,
                               outcome)
                 ELSE Ran(Some(full_path), None,
                          [success |-> FALSE,
                           message |-> <<"Failed to read script file: ", "e">>])
        ELSE Dispatch(None, script_type, Chars(script), cwd, outcome)

\* script::run_script
run_script(script, script_type, cwd, files, outcome) ==
    LET path == strip_prefix(Chars(script), "@")
    IN  IF IsSome(path)
        THEN LET full_path == IF starts_with(Unwrap(path), <<"/">>)
                              THEN PathBuf(Unwrap(path))
                              ELSE join(cwd, PathBuf(Unwrap(path)))
                 content == read_to_string(files, full_path)
                 script_dir == IF IsSome(parent(full_path))
                               THEN Unwrap(parent(full_path))
                               ELSE cwd
             IN  IF IsSome(content)
                 THEN Dispatch(Some(full_path), script_type, Unwrap(content),
                               script_dir, outcome)
                 ELSE Ran(Some(full_path), None,
                          [success |-> FALSE,
                           message |-> <<"Failed to read script file: ", "e">>])
        ELSE Dispatch(None, script_type, Chars(script), cwd, outcome)

\* The script texts run: references to a file beside the working directory,
\* below it, above it and at an absolute path, a reference without a path,
\* inline text, inline text that is also the name of a file
RunTexts == {"@x.lua", "@sub/x.rhai", "@../x.lua", "@/opt/x.rhai", "@", "f()", "x.lua"}

\* The working directories of the calls
RunDirs == {"/h/rs", "/h"}

\* The disks checked: all the files, none of them, only one
Disks ==
    LET File(path, content) == [path |-> path, content |-> content]
    IN  { { File("/h/rs/x.lua", "a()"), File("/h/x.lua", "b()"),
            File("/h/rs/sub/x.rhai", "c()"), File("/opt/x.rhai", "d()") },
          { },
          { File("/h/x.lua", "b()") } }

\* The arguments of a call of run_script, not yet made
InitRun ==
    /\ \E script \in RunTexts, script_type \in ScriptTypes, cwd \in RunDirs,
          files \in Disks :
           run_call = [script |-> Some(script), script_type |-> Some(script_type),
                       cwd |-> Some(cwd), files |-> Some(files),
                       read |-> None, engine |-> None, result |-> None]
    /\ selection = NoSelection
    /\ script_call = NoCall
    /\ NothingStored
    /\ ResolverNew
    /\ AppNotBuilt

\* The call of run_script
RunScriptCall ==
    /\ run_call.result = None
    /\ IsSome(run_call.script)
    /\ \E outcome \in EngineOutcomes(Unwrap(run_call.script_type)) :
           LET ran == run_script(Unwrap(run_call.script), Unwrap(run_call.script_type),
                                 PathBuf(Chars(Unwrap(run_call.cwd))),
                                 Unwrap(run_call.files), outcome)
           IN  run_call' = [run_call EXCEPT !.read = ran.read,
                                            !.engine = ran.engine,
                                            !.result = Some(ran.result)]
    /\ UNCHANGED << app_vars, resolver_vars, selection, script_call, state_vars >>

SpecRun == InitRun /\ [][RunScriptCall]_vars

\* C31: run_script always returns a {success, message} result. For an "@"
\* reference whose file cannot be read the result is a failure that says so
\* and no engine is run. When the file is read, the engine of the language
\* runs the content of that file with the directory that contains the file as
\* its working directory. Inline text is run as it is, with the working
\* directory of the caller.
C31_RunScriptReadsThenRuns ==
    IsSome(run_call.result) =>
        LET script == Unwrap(run_call.script)
            cwd == Unwrap(run_call.cwd)
            script_type == Unwrap(run_call.script_type)
            result == Unwrap(run_call.result)
            \* the file an "@" reference names, None for inline text
            reference ==
                CASE script = "@x.lua" /\ cwd = "/h/rs" -> Some("/h/rs/x.lua")
                  [] script = "@x.lua" /\ cwd = "/h" -> Some("/h/x.lua")
                  [] script = "@sub/x.rhai" /\ cwd = "/h/rs" -> Some("/h/rs/sub/x.rhai")
                  [] script = "@sub/x.rhai" /\ cwd = "/h" -> Some("/h/sub/x.rhai")
                  [] script = "@../x.lua" /\ cwd = "/h/rs" -> Some("/h/x.lua")
                  [] script = "@../x.lua" /\ cwd = "/h" -> Some("/x.lua")
                  [] script = "@/opt/x.rhai" -> Some("/opt/x.rhai")
                  [] script = "@" -> Some(cwd)
                  [] OTHER -> None
            \* the directory that contains a file
            ContainingDir(path) ==
                CASE path = "/h/rs/x.lua" -> "/h/rs"
                  [] path = "/h/x.lua" -> "/h"
                  [] path = "/h/rs/sub/x.rhai" -> "/h/rs/sub"
                  [] path = "/opt/x.rhai" -> "/opt"
            on_disk == {f \in Unwrap(run_call.files) : Some(f.path) = reference}
        IN  /\ result.success \in BOOLEAN
            /\ result.message # << >>
            /\ (IsSome(reference) /\ on_disk = {}) =>
                   /\ run_call.engine = None
                   /\ ~result.success
                   /\ result.message[1] = "Failed to read script file: "
            /\ on_disk # {} =>
                   /\ IsSome(run_call.engine)
                   /\ \E f \in on_disk :
                          LET engine == Unwrap(run_call.engine)
                          IN  /\ engine.script_type = script_type
                              /\ engine.script = Chars(f.content)
                              /\ engine.cwd.absolute
                              /\ canonical(engine.cwd.components)
                                     = components(Chars(ContainingDir(f.path)))
                   /\ result \in {EngineResult(o) : o \in EngineOutcomes(script_type)}
            /\ reference = None =>
                   /\ run_call.engine
                          = Some(EngineCall(script_type, Chars(script), PathBuf(Chars(cwd))))
                   /\ result \in {EngineResult(o) : o \in EngineOutcomes(script_type)}

\* A file below the working directory was read and run in its own directory
C31_Witness ==
    /\ run_call.script = Some("@sub/x.rhai")
    /\ run_call.cwd = Some("/h/rs")
    /\ IsSome(run_call.result)
    /\ IsSome(run_call.engine)
    /\ Unwrap(run_call.engine).cwd = PathBuf(Chars("/h/rs/sub"))
    /\ Unwrap(run_call.engine).script = Chars("c()")
    /\ Unwrap(run_call.result).success

\* ------------------------------------------------------- the position state

\* egui::pos2: a coordinate pair; a coordinate is an f32 that is a whole
\* number of halves and is written here as that number (-3 is -1.5)
pos2(x, y) == [x |-> x, y |-> y]

\* AppState::get_position
get_position(positions, cwd) ==
    IF cwd \in DOMAIN positions
    THEN Some(pos2(positions[cwd][1], positions[cwd][2]))
    ELSE None

\* AppState::set_position
set_position(positions, cwd, pos) == MapInsert(positions, cwd, <<pos.x, pos.y>>)

\* The decimal digits
Digits == <<"0", "1", "2", "3", "4", "5", "6", "7", "8", "9">>

\* The decimal text of a natural number
RECURSIVE digits(_)
digits(n) ==
    IF n < 10 THEN <<Digits[n + 1]>> ELSE Append(digits(n \div 10), Digits[(n % 10) + 1])

\* The natural number a decimal text stands for
RECURSIVE number(_)
number(chars) ==
    IF chars = << >> THEN 0
    ELSE 10 * number(Take(chars, Len(chars) - 1))
             + (CHOOSE d \in 0..9 : Digits[d + 1] = chars[Len(chars)])

\* A float text without the sign
float_text_Unsigned(halves) ==
    LET size == IF halves < 0 THEN 0 - halves ELSE halves
    IN  digits(size \div 2) \o <<".">> \o (IF size % 2 = 1 THEN <<"5">> ELSE <<"0">>)

\* The text the serializer writes for a float: sign, whole part, ".", fraction
float_text(halves) ==
    LET size == IF halves < 0 THEN 0 - halves ELSE halves
    IN  (IF halves < 0 THEN <<"-">> ELSE << >>)
            \o digits(size \div 2) \o <<".">> \o (IF size % 2 = 1 THEN <<"5">> ELSE <<"0">>)

\* The float the parser reads from a text
parse_float(chars) ==
    LET negative == chars # << >> /\ chars[1] = "-"
        body == IF negative THEN Tail(chars) ELSE chars
        dot == CHOOSE k \in 1..Len(body) : body[k] = "."
        size == 2 * number(SubSeq(body, 1, dot - 1))
                    + (IF SubSeq(body, dot + 1, Len(body)) = <<"5">> THEN 1 ELSE 0)
    IN  IF negative THEN 0 - size ELSE size

\* toml::to_string_pretty(&AppState): the header of the table, then one
\* entry for each key, in the order the map yields them
to_string_pretty(positions, order) ==
    << <<"[positions]">> >> \o [k \in 1..Len(order) |->
                     <<"\"", order[k], "\"", " = ", "[",
                       float_text(positions[order[k]][1]), ", ",
                       float_text(positions[order[k]][2]), "]">>]

\* toml::from_str::<AppState>: the table the text holds, or an error
from_str(text) ==
    IF text = << >> \/ text[1] # <<"[positions]">> THEN None
    ELSE LET entries == Tail(text)
             keys == {entries[k][2] : k \in 1..Len(entries)}
         IN  Some([key \in keys |->
                      LET line == entries[CHOOSE k \in 1..Len(entries) :
                                              entries[k][2] = key]
                      IN  <<parse_float(line[6]), parse_float(line[8])>>])

\* AppState::load: the table of the state file; the default when there is no
\* file, when it cannot be read and when it does not parse
load(file, readable) ==
    IF IsSome(file) /\ readable /\ IsSome(from_str(Unwrap(file)))
    THEN Unwrap(from_str(Unwrap(file)))
    ELSE EmptyMap

\* AppState::save: the file after the call; a failed write is ignored
save(positions, file, order, written) ==
    IF written THEN Some(to_string_pretty(positions, order)) ELSE file

\* The working directories the program is started in
StateKeys == {"/h/rs", "/tmp"}

\* The window positions reported: (-1.5, 0.0), (12.5, 120.0), (0.0, -60.5)
WindowPositions == {pos2(-3, 0), pos2(25, 240), pos2(0, -121)}

\* No process runs; there is no state file, or one that does not parse
InitState ==
    /\ state = EmptyMap
    /\ state_file \in {None, Some(<< <<"positions = 1">> >>)}
    /\ working_dir_str = None
    /\ NothingCalled
    /\ ResolverNew
    /\ AppNotBuilt

\* LaunchBarApp::new in a working directory: the state is loaded
Startup(working_dir, readable) ==
    /\ state' = load(state_file, readable)
    /\ working_dir_str' = Some(working_dir)
    /\ UNCHANGED << state_file, app_vars, resolver_vars, call_vars >>

\* LaunchBarApp::save_current_position: the position of the window, if the
\* viewport reports one, is set for the working directory and the state is
\* saved
save_current_position(pos, order, written) ==
    /\ IsSome(working_dir_str)
    /\ IF IsSome(pos)
       THEN /\ state' = set_position(state, Unwrap(working_dir_str), Unwrap(pos))
            /\ order \in IterationOrders(DOMAIN state')
            /\ state_file' = save(state', state_file, order, written)
       ELSE /\ order = << >>
            /\ written
            /\ UNCHANGED << state, state_file >>
    /\ UNCHANGED << working_dir_str, app_vars, resolver_vars, call_vars >>

\* The orders a map of positions can be iterated in
StateOrders == UNION {IterationOrders(keys) : keys \in SUBSET StateKeys}

NextState ==
    \/ \E working_dir \in StateKeys, readable \in BOOLEAN : Startup(working_dir, readable)
    \/ \E pos \in {None} \cup {Some(p) : p \in WindowPositions},
          order \in StateOrders, written \in BOOLEAN :
           save_current_position(pos, order, written)

SpecState == InitState /\ [][NextState]_vars

C33_OrderIsPermutation ==
    LET n == Len(loaded_presets)
        Grouped(rest) ==
            \A a, b \in 1 .. Len(rest) :
                a < b =>
                    LET global_a == is_global(loaded_presets[rest[a] + 1])
                        global_b == is_global(loaded_presets[rest[b] + 1])
                    IN  \/ global_a /\ ~global_b
                        \/ global_a = global_b /\ rest[a] < rest[b]
    IN  /\ Len(preset_order) = n
        /\ {preset_order[k] : k \in 1 .. n} = 0 .. (n - 1)
        /\ lastOp.op = "new" =>
               IF IsSome(preset_name)
               THEN /\ loaded_presets[preset_order[1] + 1].name = Unwrap(preset_name)
                    /\ Grouped(Tail(preset_order))
               ELSE Grouped(preset_order)

\* Of four presets the last, a detectable one, was detected: it comes first,
\* then the two global presets, then the other detectable one; one switch
\* has moved on to the first global preset
C33_Witness ==
    /\ Len(loaded_presets) = 4
    /\ preset_order = <<3, 0, 2, 1>>
    /\ current_preset_idx = 1
    /\ preset_name = Some("[Global]")

\* ------------------------------------------- results that arrive after a switch

\* C34: a script result that arrives for a slot the application no longer
\* tracks (the switch removed its running marker after the script was
\* dispatched) is discarded: a reconciliation that receives only such
\* results, while no child is tracked, leaves every slot's state, the status
\* text and the error flag as they were.
C34_LateResultDiscarded ==
    [][(/\ Reconcile
        /\ script_channel # << >>
        /\ running_processes = EmptyMap
        /\ \A k \in 1 .. Len(script_channel) :
               script_channel[k].index \notin running_scripts)
           => /\ \A index \in SlotIdx : SlotState(index)' = SlotState(index)
              /\ UNCHANGED << last_status, is_error >>]_vars

\* ------------------------------------------------- presets of unequal length

\* The application built on a list of two presets, the second of which has
\* one command only
InitShort == InitSwitch /\ Len(loaded_presets) = 2 /\ loaded_presets[2].name = "Notes"

SpecShort == InitShort /\ [][Next]_vars

\* C35: every slot index that has a running child, a running script marker
\* or a finished result is an index of the active command list.
C35_TrackedIndicesValid ==
    \A index \in DOMAIN running_processes \cup DOMAIN process_results \cup running_scripts :
        index < Len(commands)

\* ------------------------------------------------ runs without a preset switch

\* update() while the switch button is never pressed
NextNoSwitch ==
    /\ \/ Reconcile
       \/ \E index \in Slots : run_command(index)
       \/ \E index \in SlotIdx, outcome \in Outcomes : WorkerThread(index, outcome)
       \/ \E index \in SlotIdx, status \in {"exit_ok", "exit_fail"} :
              ChildExit(index, status)
       \/ OrphanExit
    /\ UNCHANGED << resolver_vars, call_vars, state_vars >>

SpecNoSwitch == Init /\ [][NextNoSwitch]_vars

\* C36: as long as no preset switch occurs, a slot is marked as a running
\* script exactly when one script execution of that slot is dispatched and
\* not yet consumed (its worker runs, or its result waits in the channel),
\* and there is never more than one.
C36_MarkerIffInFlight ==
    \A index \in SlotIdx :
        /\ workers[index] + Waiting(index) <= 1
        /\ index \in running_scripts <=> workers[index] + Waiting(index) = 1

\* A script's result waits in the channel, its slot still marked, after an
\* earlier execution of the same slot was consumed
C36_Witness ==
    \E index \in SlotIdx :
        /\ index \in running_scripts
        /\ workers[index] = 0
        /\ Waiting(index) = 1
        /\ index \in DOMAIN process_results

\* --------------------------------------- a shell slot invoked while it runs

\* C37: run_command on a shell-backed slot whose child is still tracked
\* spawns a second child: the slot then tracks the new child only, the
\* earlier one runs on untracked (it is not killed and not waited for) and
\* its exit status is recorded nowhere.  The exit of an untracked child
\* changes no slot, status text or error flag, and no reconciliation takes
\* an untracked child up again.
C37_ReinvokedShellOrphansChild ==
    [][/\ \A index \in SlotIdx :
              (Invoked(index, "shell_spawned") /\ index \in DOMAIN running_processes) =>
                  /\ DOMAIN running_processes' = DOMAIN running_processes
                  /\ running_processes'[index] = "running"
                  /\ SlotState(index)' = "RunningShell"
                  /\ LiveChildren' = LiveChildren
                         + (IF running_processes[index] = "running" THEN 1 ELSE 0)
                  /\ orphans' = orphans
                         + (IF running_processes[index] = "running" THEN 1 ELSE 0)
                  /\ \A i \in DOMAIN process_results' :
                         /\ i \in DOMAIN process_results
                         /\ process_results'[i] = process_results[i]
       /\ OrphanExit =>
              /\ \A index \in SlotIdx : SlotState(index)' = SlotState(index)
              /\ UNCHANGED << running_processes, process_results, last_status, is_error >>
       /\ Reconcile => orphans' >= orphans
      ]_vars

\* A shell slot was invoked again while its first child ran: the slot is
\* Running on the new child, the first child runs on untracked, and no
\* result is recorded
C37_Witness ==
    \E index \in SlotIdx :
        /\ lastOp = Op("run_command", index, "shell_spawned")
        /\ running_processes = MapInsert(EmptyMap, index, "running")
        /\ orphans = 1
        /\ process_results = EmptyMap
        /\ current_preset_idx = 0

\* ------------------------------------------------ what a script dispatch touches

\* C38: a script dispatch for a slot adds the slot's running marker, sets
\* the status text to "Running: <name>" and clears the error flag, and
\* changes no other field: the finished results of all slots (a Succeeded
\* one and an earlier result of the same slot included), the running
\* children and the other running markers stay as they are.
C38_DispatchTouchesOnlyMarker ==
    [][\A index \in SlotIdx :
          Invoked(index, "script_dispatched") =>
              /\ running_scripts' = running_scripts \cup {index}
              /\ index \notin running_scripts
              /\ last_status' = Some(<<"Running: ", commands[index + 1].name>>)
              /\ is_error' = FALSE
              /\ UNCHANGED << process_results, running_processes, preset_state >>
      ]_vars

\* A script was dispatched for a slot that holds its earlier Success result,
\* and the result is still there
C38_Witness ==
    \E index \in SlotIdx :
        /\ lastOp = Op("run_command", index, "script_dispatched")
        /\ index \in running_scripts
        /\ index \in DOMAIN process_results
        /\ process_results[index] = "Success"
        /\ \E other \in SlotIdx \ {index} : other \in DOMAIN process_results

\* ------------------------------------------------------------------ liveness

\* Runs without a preset switch in which update() keeps being called (it
\* asks for a repaint after at most 500 ms) and every worker thread comes to
\* its end
SpecLive ==
    /\ Init
    /\ [][NextNoSwitch]_vars
    /\ WF_vars(Reconcile /\ UNCHANGED << resolver_vars, call_vars, state_vars >>)
    /\ \A index \in SlotIdx :
           WF_vars(/\ \E outcome \in Outcomes : WorkerThread(index, outcome)
                   /\ UNCHANGED << resolver_vars, call_vars, state_vars >>)

\* C39: when reconciliation keeps occurring, every script execution ends and
\* no preset switch occurs, every slot that is Running(ScriptTask) is
\* eventually Succeeded or Failed, and every slot whose tracked child has
\* exited is eventually Succeeded or Failed unless a new child is spawned
\* for the slot first.
C39_RunningEventuallyFinished ==
    \A index \in SlotIdx :
        /\ (SlotState(index) = "RunningScript")
               ~> (SlotState(index) \in {"Succeeded", "Failed"})
        /\ (index \in DOMAIN running_processes /\ running_processes[index] # "running")
               ~> \/ SlotState(index) \in {"Succeeded", "Failed"}
                  \/ lastOp = Op("run_command", index, "shell_spawned")

\* A reconciliation has just taken a script slot from Running to Succeeded
C39_Witness ==
    \E index \in SlotIdx :
        /\ lastOp.op = "reconcile" /\ lastOp.branch = "reconciled"
        /\ HasRun(index)
        /\ SlotState(index) = "Succeeded"
        /\ script_channel = << >>
        /\ workers[index] = 0

====
